---- MODULE Spec2Model ----
(***************************************************************************)
(* A model of the web search agent's fetch engine and similarity cache:    *)
(*   - EnhancedWebScraper (backend/src/core/web_scraper.py): per-domain    *)
(*     circuit breakers, the retry loop of scrape_page_content_with_retry, *)
(*     concurrent retrievals of one batch, and search_google;              *)
(*   - EnhancedSimilarityDetector (backend/src/core/similarity_detector.py)*)
(*     : the persisted query cache and find_similar_query.                 *)
(* Time is in seconds.  Similarities are in hundredths (0.85 is 85).       *)
(***************************************************************************)
EXTENDS Integers, Sequences, FiniteSets, TLC

(***************************************************************************)
(* Bounds of the model.                                                    *)
(***************************************************************************)
\* max_retries (a constructor argument) ranges over 0..MaxRetriesBound
MaxRetriesBound == 3
\* the clock advances TickStep seconds at a time, at most MaxTicks times
TickStep == 150
MaxTicks == 3
\* failures / successes recorded per domain are capped by the guards
MaxFailureCount == 4
MaxSuccessCount == 2
\* search_google is called with max_results in 0..MaxResultsBound; a backend
\* returns at most MaxEngineResults results
MaxResultsBound == 2
MaxEngineResults == 1
\* store_query_with_results is called at most MaxStores times
MaxStores == 3
\* and at most MaxLookupStores times before the lookups of the scenarios
MaxLookupStores == 2
\* _get_retry_delay is called with attempt in 0..MaxAttemptIndex
MaxAttemptIndex == 5
\* _validate_search_results is called with at most MaxCandidates results
MaxCandidates == 2
\* at most MaxRequestCount requests are counted in one rate-limit window
MaxRequestCount == 22
\* scrape_multiple_pages and batch_scrape are called with at most MaxUrls URLs
MaxUrls == 4
\* a scraper makes at most MaxAttemptCount attempts on one URL over its calls
MaxAttemptCount == 6
\* the agent is made with max_concurrent_requests in 1..MaxConcurrent
MaxConcurrent == 3
\* the clock of the validator's scenarios stops after MaxDays days
MaxDays == 2
\* verdicts of other queries come into the classification cache OthersStored
\* at a time
OthersStored == 500

(***************************************************************************)
(* Program constants.                                                      *)
(***************************************************************************)
\* _should_circuit_break: current_time - breaker.last_failure > 300
BreakerOpenSeconds == 300
\* _update_circuit_breaker: breaker.failure_count >= 3
FailureThreshold == 3
\* _update_circuit_breaker: breaker.success_count >= 2
HalfOpenSuccesses == 2
\* _should_retry: rate limits are retried while attempt < 2
RateLimitRetries == 2
\* scrape_multiple_pages: "Process 2 at a time"
BatchSize == 2
\* __init__: max_retries: int = 3
DefaultMaxRetries == 3
\* _get_prioritized_engines: success_rates.get(domain, 0.5), in hundredths
DefaultSuccessRate == 50
\* _generate_react_results: the length of react_results
ReactResultCount == 5
\* _generate_*_results: the length of each domain list
FallbackDomainCount == 4

\* get_cached_result: time.time() - timestamp < 86400
CacheFreshness == 86400
\* cache_result: if len(cache) > 1000 ... sorted_items[-1000:]
MaxCacheEntries == 1000

\* WebScrapingAgent.__init__: max_concurrent_requests: int = 3
DefaultMaxConcurrentRequests == 3

\* _get_retry_delay: min(delay, 30.0), in milliseconds
MaxRetryDelay == 30000

\* _apply_rate_limiting: the window of 60 s, in milliseconds
WindowMs == 60000
\* _apply_rate_limiting: request_count > 10 / request_count < 5
BusyRequests == 10
QuietRequests == 5
\* _apply_rate_limiting: min(..., 5.0) / max(..., 0.5), in milliseconds
MaxDelay == 5000
MinDelay == 500

\* __init__: similarity_threshold: float = 0.85, in hundredths
SimilarityThreshold == 85
\* __init__: llm_validation_threshold: float = 0.75
LlmValidationThreshold == 75
\* __init__: knn_neighbors: int = 5
KnnNeighbors == 5
\* find_similar_query: self.similarity_threshold + 0.05 in strict mode
StrictMargin == 5
\* find_similar_query: textual_similarity < 0.3 is rejected
MinTextualSimilarity == 30
\* find_similar_query: llm_result.get("confidence", 0) >= 0.7
MinLlmConfidence == 70
\* TTLPolicy, in seconds
DefaultTtl == 86400
TimeSensitiveTtl == 3600
StableContentTtl == 604800

\* search_google is called as often as it takes to open an engine's breaker
\* and then to meet it open.
MaxSearches == FailureThreshold + 1

VARIABLES
    max_retries,             \* self.max_retries
    enable_circuit_breaker,  \* self.enable_circuit_breaker
    page_ok,                 \* self.page is not None (the browser was started)
    circuit_breakers,        \* self.circuit_breakers: domain -> CircuitBreakerState
    success_metrics,         \* self.success_metrics: domain -> int
    failure_metrics,         \* self.failure_metrics: domain -> int
    now,                     \* time.time()
    task,                    \* the retrievals in flight (coroutines of one batch)
    consecutive,             \* history: failed attempts of a domain since its last success
    url_outcomes,            \* history: how the attempts on a URL have ended so far
    search,                  \* the search_google call under way, or its result
    searches,                \* history: the number of search_google calls made
    strict_mode,             \* detector: self.strict_mode
    enable_llm_validation,   \* detector: self.enable_llm_validation
    openai_client,           \* detector: self.openai_client is not None
    cache_file,              \* detector: the records in data/similarity_cache.json
    cached_queries,          \* detector: self.cached_queries, the records of the KNN model
    last_find,               \* the find_similar_query call that has just returned, its result
    store_log,               \* history: the queries of the store_query_with_results calls, in order
    writers,                 \* the store_query_with_results calls under way in other processes
    enable_rate_limiting,    \* self.enable_rate_limiting
    rate_limits,             \* self.rate_limits: domain -> RateLimitState
    millis,                  \* time.time(): the milliseconds past the second now
    backoff,                 \* the _get_retry_delay calls of one retry loop, the last two delays
    validation,              \* the _validate_search_results call that has just returned
    batch,                   \* the scrape_multiple_pages or batch_scrape call under way, its coroutines
    validator,               \* the query validator, its cache file and the validate_query call that has just ended
    retrieval,               \* self.scrape_attempts and the scrape_page_content_with_retry call it is followed through
    request,                 \* the /search request under way or just answered (enhanced_search_query)
    scoring                   \* the confidence_score of the SimilarityResult in last_find, and the LLM's answers to that call

scraperVars == <<max_retries, enable_circuit_breaker, page_ok, circuit_breakers,
                 success_metrics, failure_metrics, now, task, consecutive,
                 url_outcomes>>

searchVars == <<search, searches>>

detectorVars == <<strict_mode, enable_llm_validation, openai_client, cache_file,
                  cached_queries, last_find, store_log, writers>>

limiterVars == <<enable_rate_limiting, rate_limits, millis>>

laterVars == <<retrieval, request, scoring>>

restVars == <<backoff, validation, batch, validator, laterVars>>

vars == <<max_retries, enable_circuit_breaker, page_ok, circuit_breakers,
          success_metrics, failure_metrics, now, task, consecutive, url_outcomes,
          search, searches, strict_mode, enable_llm_validation, openai_client,
          cache_file, cached_queries, last_find, store_log, writers,
          enable_rate_limiting, rate_limits, millis, backoff, validation, batch,
          validator, retrieval, request, scoring>>

(***************************************************************************)
(* URLs and domains.                                                       *)
(***************************************************************************)
\* Two pages of one site (one of them with "timeout" in its path, as the
\* tests' https://httpstat.us/timeout) and one fallback URL.
Urls == {"https://site.test/page", "https://site.test/timeout",
         "https://example.com/topic"}

\* _get_domain: urlparse(url).netloc.lower()
GetDomain(url) ==
    IF url = "https://example.com/topic" THEN "example.com" ELSE "site.test"

\* The classification keywords that occur in the text of a URL.
UrlText(url) ==
    IF url = "https://site.test/timeout" THEN {"timeout"} ELSE {}

\* scrape_page_content_with_retry: any(d in url for d in ["example.com", "enhanced_fallback"])
IsFallbackUrl(url) == url = "https://example.com/topic"

Domains == {GetDomain(u) : u \in Urls}

\* self.search_engines, in the order of the list
SearchEngines == <<"bing", "duckduckgo", "yahoo", "searx">>

\* search_google: domain = f"{engine_name}.search"
EngineDomain(engine) ==
    CASE engine = "bing" -> "bing.search"
      [] engine = "duckduckgo" -> "duckduckgo.search"
      [] engine = "yahoo" -> "yahoo.search"
      [] engine = "searx" -> "searx.search"

EngineDomains == {EngineDomain(SearchEngines[i]) : i \in 1..Len(SearchEngines)}

\* The keys of self.circuit_breakers (a defaultdict: a missing key reads as
\* a new CircuitBreakerState).
BreakerKeys == Domains \cup EngineDomains

(***************************************************************************)
(* Failure classification and the retry policy.                            *)
(***************************************************************************)
FailureTypes == {"timeout", "blocked", "network", "parsing", "javascript",
                 "captcha", "rate_limited", "unknown"}

\* An exception: whether it is a PlaywrightTimeoutError, and which of the
\* substrings _classify_error looks for occur in str(error).lower().
Err(pw, text) == [pw |-> pw, text |-> text]

\* The exceptions a navigation can end in (the messages of
\* test_error_classification and Playwright's own timeout).
NavigationErrors ==
    { Err(TRUE,  {"timeout"}),                                \* PlaywrightTimeoutError
      Err(FALSE, {"timeout", "connection"}),                  \* "Connection timeout after 30 seconds"
      Err(FALSE, {"403", "forbidden", "access denied"}),      \* "HTTP 403 Forbidden - Access denied"
      Err(FALSE, {"429", "too many requests"}),               \* "HTTP 429 Too Many Requests"
      Err(FALSE, {"network", "connection", "dns"}),           \* "Network connection failed - DNS resolution error"
      Err(FALSE, {"captcha", "verification"}),                \* "CAPTCHA verification required"
      Err(FALSE, {"javascript", "script"}),                   \* "JavaScript execution failed"
      Err(FALSE, {"html", "parsing"}),                        \* "HTML parsing failed - invalid markup"
      Err(FALSE, {}) }                                        \* "Something went wrong"

\* raise Exception(f"Bot detection detected on {url}")
BotDetectedError(url) == Err(FALSE, {"bot"} \cup UrlText(url))

\* raise Exception(f"Content too short ({len(main_content)} chars)")
ContentTooShortError == Err(FALSE, {})

\* raise RuntimeError("Browser page not initialized")
PageNotInitializedError == Err(FALSE, {})

AnyIn(text, patterns) == text \cap patterns # {}

\* _classify_error
ClassifyError(error) ==
    IF error.pw \/ "timeout" \in error.text THEN "timeout"
    ELSE IF AnyIn(error.text, {"blocked", "403", "forbidden", "access denied"}) THEN "blocked"
    ELSE IF AnyIn(error.text, {"429", "rate limit", "too many requests"}) THEN "rate_limited"
    ELSE IF AnyIn(error.text, {"captcha", "verification", "bot"}) THEN "captcha"
    ELSE IF AnyIn(error.text, {"network", "connection", "resolve", "dns"}) THEN "network"
    ELSE IF AnyIn(error.text, {"javascript", "js", "script"}) THEN "javascript"
    ELSE IF AnyIn(error.text, {"parse", "parsing", "html"}) THEN "parsing"
    ELSE "unknown"

\* A retry policy that treats a blocked failure like any other.
ShouldRetryBlockedToo(error, attempt) ==
    IF attempt >= max_retries THEN FALSE
    ELSE IF ClassifyError(error) = "captcha" THEN FALSE
    ELSE IF ClassifyError(error) = "rate_limited" THEN attempt < RateLimitRetries
    ELSE TRUE

\* A retry policy that gives up on timeouts as early as on rate limits.
ShouldRetryTimeoutTwice(error, attempt) ==
    IF attempt >= max_retries THEN FALSE
    ELSE IF ClassifyError(error) \in {"blocked", "captcha"} THEN FALSE
    ELSE IF ClassifyError(error) \in {"timeout", "rate_limited"} THEN attempt < RateLimitRetries
    ELSE TRUE

\* A retry policy that retries only the failure kinds it lists.
ShouldRetryOnlyListed(error, attempt) ==
    IF attempt >= max_retries THEN FALSE
    ELSE IF ClassifyError(error) \in {"blocked", "captcha"} THEN FALSE
    ELSE IF ClassifyError(error) \in {"timeout", "network", "unknown"} THEN TRUE
    ELSE IF ClassifyError(error) = "rate_limited" THEN attempt < RateLimitRetries
    ELSE FALSE

\* _should_retry
ShouldRetry(error, attempt) ==
    IF attempt >= max_retries THEN FALSE
    ELSE IF ClassifyError(error) \in {"blocked", "captcha"} THEN FALSE
    ELSE IF ClassifyError(error) \in {"timeout", "network", "unknown"} THEN TRUE
    ELSE IF ClassifyError(error) = "rate_limited" THEN attempt < RateLimitRetries
    ELSE TRUE

\* _get_retry_delay: base_delay by failure type, in milliseconds
BaseDelay(failure_type) ==
    IF failure_type = "rate_limited" THEN 5000
    ELSE IF failure_type = "network" THEN 2000
    ELSE IF failure_type = "timeout" THEN 1500
    ELSE 1000

\* 2 ** attempt
RECURSIVE Pow2(_)
Pow2(attempt) == IF attempt = 0 THEN 1 ELSE 2 * Pow2(attempt - 1)

\* random.uniform(0, 1), in milliseconds: the ends and the middle of the range
Jitters == {0, 500, 1000}

\* A back-off without the cap.
GetRetryDelayUncapped(attempt, failure_type, jitter) ==
    BaseDelay(failure_type) * Pow2(attempt) + jitter

\* _get_retry_delay, in milliseconds; jitter is the value random.uniform drew
GetRetryDelay(attempt, failure_type, jitter) ==
    LET delay == BaseDelay(failure_type) * Pow2(attempt) + jitter
    IN  IF delay < MaxRetryDelay THEN delay ELSE MaxRetryDelay

\* No _get_retry_delay call has been made.  A call leaves its arguments, the
\* jitter drawn, the delay returned, and the delay returned for the attempt
\* index before it.
NoBackoff == [failure_type |-> "none", attempt |-> 0, jitter |-> 0, delay |-> 0,
              previous |-> 0]

\* _get_retry_delay(0, failure_type): the delay before the first retry
FirstRetryDelay(failure_type, jitter) ==
    /\ backoff' = [failure_type |-> failure_type, attempt |-> 0, jitter |-> jitter,
                   delay |-> GetRetryDelay(0, failure_type, jitter),
                   previous |-> 0]
    /\ UNCHANGED <<scraperVars, searchVars, detectorVars, limiterVars,
                   validation, batch, validator, laterVars>>

\* _get_retry_delay(attempt + 1, failure_type): the delay before the next
\* retry of a loop whose attempts fail the same way
NextRetryDelay(jitter) ==
    /\ backoff # NoBackoff
    /\ backoff.attempt < MaxAttemptIndex
    /\ backoff' = [failure_type |-> backoff.failure_type,
                   attempt |-> backoff.attempt + 1, jitter |-> jitter,
                   delay |-> GetRetryDelay(backoff.attempt + 1,
                                           backoff.failure_type, jitter),
                   previous |-> backoff.delay]
    /\ UNCHANGED <<scraperVars, searchVars, detectorVars, limiterVars,
                   validation, batch, validator, laterVars>>

(***************************************************************************)
(* Circuit breaker.                                                        *)
(***************************************************************************)
\* time.time() at the start of the model's clock, in seconds since the epoch
SecondsSinceEpoch == 1000000

\* time.time(), in milliseconds since the start of the model's clock
TimeMs == now * 1000 + millis

\* RateLimitState(): last_request and window_start 0 (the epoch), delay 1.0;
\* times and the delay in milliseconds
NewRateLimit == [last_request |-> 0 - 1000 * SecondsSinceEpoch, request_count |-> 0,
                 window_start |-> 0 - 1000 * SecondsSinceEpoch, delay |-> 1000]

\* _apply_rate_limiting, "Reset window if needed"
ResetWindow(rate_limit, current_time) ==
    IF current_time - rate_limit.window_start > WindowMs
    THEN [rate_limit EXCEPT !.window_start = current_time, !.request_count = 0]
    ELSE rate_limit

\* _apply_rate_limiting: sleep_time, 0 when there is no need to delay
SleepTime(rate_limit, current_time) ==
    IF current_time - rate_limit.last_request < rate_limit.delay
    THEN rate_limit.delay - (current_time - rate_limit.last_request)
    ELSE 0

\* An adjustment that does not clamp the delay.
AdjustDelayUnclamped(delay, request_count) ==
    IF request_count > BusyRequests THEN (delay * 12) \div 10
    ELSE IF request_count < QuietRequests THEN (delay * 9) \div 10
    ELSE delay

\* _apply_rate_limiting, "Adjust delay based on request frequency": x 1.2 up
\* to 5.0, x 0.9 down to 0.5 (rounded down to the millisecond)
AdjustDelay(delay, request_count) ==
    IF request_count > BusyRequests
    THEN (IF (delay * 12) \div 10 < MaxDelay THEN (delay * 12) \div 10 ELSE MaxDelay)
    ELSE IF request_count < QuietRequests
    THEN (IF (delay * 9) \div 10 > MinDelay THEN (delay * 9) \div 10 ELSE MinDelay)
    ELSE delay

\* _apply_rate_limiting from "Update counters" on, at the time it runs
CountRequest(rate_limit, current_time) ==
    [rate_limit EXCEPT !.last_request = current_time,
                       !.request_count = @ + 1,
                       !.delay = AdjustDelay(@, rate_limit.request_count + 1)]

\* CircuitBreakerState()
NewBreaker == [failure_count |-> 0, last_failure |-> 0, state |-> "closed",
               success_count |-> 0]

\* A check that lets an open breaker through to half-open with the successes
\* counted so far.
BreakerAfterCheckKeepsCount(b) ==
    IF enable_circuit_breaker /\ b.state = "open"
       /\ now - b.last_failure > BreakerOpenSeconds
    THEN [b EXCEPT !.state = "half-open"]
    ELSE b

\* _should_circuit_break, its effect on the breaker: an open breaker whose
\* last failure is more than 300 s old becomes half-open.
BreakerAfterCheck(b) ==
    IF enable_circuit_breaker /\ b.state = "open"
       /\ now - b.last_failure > BreakerOpenSeconds
    THEN [b EXCEPT !.state = "half-open", !.success_count = 0]
    ELSE b

\* A check that never finds a breaker open.
ShouldCircuitBreakNever(b) == FALSE

\* _should_circuit_break, its answer
ShouldCircuitBreak(b) ==
    enable_circuit_breaker /\ BreakerAfterCheck(b).state = "open"

\* _update_circuit_breaker
UpdateCircuitBreaker(b, success) ==
    IF ~enable_circuit_breaker THEN b
    ELSE IF success
    THEN LET sc == b.success_count + 1
         IN  IF b.state = "half-open" /\ sc >= HalfOpenSuccesses
             THEN [b EXCEPT !.success_count = sc, !.state = "closed",
                            !.failure_count = 0]
             ELSE [b EXCEPT !.success_count = sc]
    ELSE LET fc == b.failure_count + 1
         IN  [b EXCEPT !.failure_count = fc, !.last_failure = now,
                       !.state = IF fc >= FailureThreshold THEN "open" ELSE @]

(***************************************************************************)
(* scrape_page_content_with_retry, one coroutine per task.  A task yields  *)
(* to the event loop at its awaits: before an attempt (rate-limit sleep,   *)
(* back-off sleep, set_extra_http_headers) and during the navigation.      *)
(***************************************************************************)
Tasks == 1..BatchSize

\* wake is the time at which the rate-limit sleep of the task ends; paced
\* tells that the task has made its rate-limit step and no navigation since.
IdleTask == [pc |-> "idle", url |-> "https://site.test/page", retry_count |-> 0,
             tries |-> 0, failure_type |-> "none", result |-> "none",
             wake |-> 0, paced |-> FALSE]

\* A call that lets the last exception out once every attempt is given up.
ResultAfterLoopRaises == "raised"

\* What the call does once every attempt is given up: it returns
\* _generate_realistic_content(url, error=True), whose metadata has
\* generated=True ("raised" would be an exception leaving the call).
ResultAfterLoop == "generated_error"

\* The except block of one attempt of task t, whose record is tk: classify,
\* count the failure, update the breaker, then break or sleep and go round
\* the loop again.
HandleFailure(t, tk, error) ==
    LET d  == GetDomain(tk.url)
        ft == ClassifyError(error)
        rc == tk.retry_count
        goOn == ShouldRetry(error, rc) /\ rc + 1 <= max_retries
    IN  /\ failure_metrics[d] < MaxFailureCount
        /\ failure_metrics' = [failure_metrics EXCEPT ![d] = @ + 1]
        /\ circuit_breakers' = [circuit_breakers EXCEPT
                                  ![d] = UpdateCircuitBreaker(@, FALSE)]
        /\ consecutive' = [consecutive EXCEPT ![d] = @ + 1]
        /\ url_outcomes' = [url_outcomes EXCEPT ![tk.url] =
                              IF ft = "timeout" /\ @ \in {"none", "timeouts"}
                              THEN "timeouts" ELSE "mixed"]
        /\ task' = [task EXCEPT ![t] =
                      [tk EXCEPT
                         !.failure_type = ft,
                         !.retry_count = IF goOn THEN rc + 1 ELSE rc,
                         !.pc = IF goOn THEN "loop" ELSE "done",
                         !.result = IF goOn THEN "none" ELSE ResultAfterLoop]]
        /\ UNCHANGED success_metrics

\* No coroutine of the batch is still waiting for its first step: gather
\* starts them in order, each running to its first await, before any resumes.
AllStarted == \A t \in Tasks : task[t].pc # "ready"

\* scrape_multiple_pages creates the coroutines of the next batch and hands
\* them to asyncio.gather, once every retrieval of the batch before it has
\* returned.  A direct call of scrape_page_content_with_retry is a batch of one.
StartBatch(urls) ==
    /\ \A t \in Tasks : task[t].pc \in {"idle", "done"}
    /\ task' = [t \in Tasks |->
                  IF t <= Len(urls)
                  THEN [IdleTask EXCEPT !.pc = "ready", !.url = urls[t]]
                  ELSE IdleTask]
    /\ UNCHANGED <<detectorVars, max_retries, enable_circuit_breaker, page_ok,
                   circuit_breakers, success_metrics, failure_metrics, now,
                   consecutive, url_outcomes, searchVars,
                   limiterVars, restVars>>

\* The call starts: the breaker check, then (breaker not open) the rate-limit
\* step, which sleeps when the last request to the domain is less than the
\* domain's delay ago, then into the loop.
StartScrape(t) ==
    LET d == GetDomain(task[t].url)
        b == circuit_breakers[d]
        rate_limit == ResetWindow(rate_limits[d], TimeMs)
        sleep_time == SleepTime(rate_limit, TimeMs)
    IN  /\ task[t].pc = "ready"
        /\ \A t2 \in Tasks : t2 < t => task[t2].pc # "ready"
        /\ circuit_breakers' = [circuit_breakers EXCEPT ![d] = BreakerAfterCheck(b)]
        /\ IF ShouldCircuitBreak(b)
           THEN /\ task' = [task EXCEPT ![t].pc = "done",
                                        ![t].result = "generated_error"]
                /\ UNCHANGED rate_limits
           ELSE IF ~enable_rate_limiting
           THEN /\ task' = [task EXCEPT ![t].pc = "loop"]
                /\ UNCHANGED rate_limits
           ELSE IF sleep_time > 0
           THEN /\ task' = [task EXCEPT ![t].pc = "pacing",
                                        ![t].wake = TimeMs + sleep_time]
                /\ rate_limits' = [rate_limits EXCEPT ![d] = rate_limit]
           ELSE /\ rate_limit.request_count < MaxRequestCount
                /\ task' = [task EXCEPT ![t].pc = "loop", ![t].paced = TRUE]
                /\ rate_limits' = [rate_limits EXCEPT
                                     ![d] = CountRequest(rate_limit, TimeMs)]
        /\ UNCHANGED <<detectorVars, max_retries, enable_circuit_breaker, page_ok,
                       success_metrics, failure_metrics, now, consecutive,
                       url_outcomes, searchVars, enable_rate_limiting, millis,
                       restVars>>

\* The rate-limit sleep of task t is over: the request is counted.
FinishPacing(t) ==
    LET d == GetDomain(task[t].url)
    IN  /\ task[t].pc = "pacing"
        /\ AllStarted
        /\ TimeMs >= task[t].wake
        /\ rate_limits[d].request_count < MaxRequestCount
        /\ task' = [task EXCEPT ![t].pc = "loop", ![t].paced = TRUE, ![t].wake = 0]
        /\ rate_limits' = [rate_limits EXCEPT
                             ![d] = CountRequest(rate_limits[d], TimeMs)]
        /\ UNCHANGED <<detectorVars, max_retries, enable_circuit_breaker, page_ok,
                       circuit_breakers, success_metrics, failure_metrics, now,
                       consecutive, url_outcomes, searchVars, enable_rate_limiting,
                       millis, restVars>>

\* The times at which the sleeps under way end.
WakeTimes == {task[t].wake : t \in {t2 \in Tasks : task[t2].pc = "pacing"}}

\* Time passes up to the end of the sleep that ends first (the clock of the
\* model stops at MaxTicks * TickStep seconds).
SleepEnds ==
    LET wake == CHOOSE w \in WakeTimes : \A w2 \in WakeTimes : w <= w2
    IN  /\ WakeTimes # {}
        /\ wake > TimeMs
        /\ wake <= MaxTicks * TickStep * 1000
        /\ now' = wake \div 1000
        /\ millis' = wake % 1000
        /\ UNCHANGED <<detectorVars, max_retries, enable_circuit_breaker, page_ok,
                       circuit_breakers, success_metrics, failure_metrics, task,
                       consecutive, url_outcomes, searchVars, enable_rate_limiting,
                       rate_limits, restVars>>

\* The top of one loop iteration up to the navigation: a fallback URL returns
\* generated content, a missing page raises, otherwise page.goto is issued.
BeginAttempt(t) ==
    LET tk == [task[t] EXCEPT !.tries = @ + 1]
    IN  /\ task[t].pc = "loop"
        /\ AllStarted
        /\ IF IsFallbackUrl(tk.url)
           THEN /\ task' = [task EXCEPT ![t] =
                              [tk EXCEPT !.pc = "done", !.result = "generated"]]
                /\ UNCHANGED <<circuit_breakers, success_metrics,
                               failure_metrics, consecutive, url_outcomes>>
           ELSE IF ~page_ok
           THEN HandleFailure(t, tk, PageNotInitializedError)
           ELSE /\ task' = [task EXCEPT ![t] = [tk EXCEPT !.pc = "goto",
                                                           !.paced = FALSE]]
                /\ UNCHANGED <<circuit_breakers, success_metrics,
                               failure_metrics, consecutive, url_outcomes>>
        /\ UNCHANGED <<detectorVars, max_retries, enable_circuit_breaker, page_ok, now,
                       searchVars,
                   limiterVars, restVars>>

\* The navigation and the extraction succeed: the attempt's bookkeeping and
\* the return of the extracted content.
AttemptSucceeds(t) ==
    LET d == GetDomain(task[t].url)
    IN  /\ task[t].pc = "goto"
        /\ AllStarted
        /\ success_metrics[d] < MaxSuccessCount
        /\ success_metrics' = [success_metrics EXCEPT ![d] = @ + 1]
        /\ circuit_breakers' = [circuit_breakers EXCEPT
                                  ![d] = UpdateCircuitBreaker(@, TRUE)]
        /\ consecutive' = [consecutive EXCEPT ![d] = 0]
        /\ url_outcomes' = [url_outcomes EXCEPT ![task[t].url] = "mixed"]
        /\ task' = [task EXCEPT ![t].pc = "done", ![t].result = "extracted"]
        /\ UNCHANGED <<detectorVars, max_retries, enable_circuit_breaker, page_ok,
                       failure_metrics, now, searchVars,
                   limiterVars, restVars>>

\* The attempt raises: the navigation fails, the page shows a bot challenge,
\* or the extracted content is too short.
AttemptFails(t, error) ==
    /\ task[t].pc = "goto"
    /\ AllStarted
    /\ HandleFailure(t, task[t], error)
    /\ UNCHANGED <<detectorVars, max_retries, enable_circuit_breaker, page_ok, now,
                   searchVars,
                   limiterVars, restVars>>

\* What an attempt on url can raise.
AttemptErrors(url) ==
    NavigationErrors \cup {BotDetectedError(url), ContentTooShortError}

\* The same, one exception per way the retry policy treats a failure
\* (retried, refused as blocked, refused as a bot challenge).
BatchAttemptErrors(url) ==
    {Err(TRUE, {"timeout"}), Err(FALSE, {"403", "forbidden", "access denied"}),
     BotDetectedError(url)}

(***************************************************************************)
(* search_google.  A query is the list of its lower-cased words; a result  *)
(* is a record with the words of its title and of its URL and its source.  *)
(***************************************************************************)
Queries == {"react hooks", "python tutorial", "research study", ""}

\* The queries whose candidates are validated on their own: with two and
\* with three words, and without any.
CandidateQueries == {"react hooks", "react hooks tutorial", ""}

\* query.lower().split()
QueryWords(query) ==
    CASE query = "react hooks" -> {"react", "hooks"}
      [] query = "python tutorial" -> {"python", "tutorial"}
      [] query = "research study" -> {"research", "study"}
      [] query = "react hooks tutorial" -> {"react", "hooks", "tutorial"}
      [] query = "" -> {}

\* The pages a backend or the API can report: their lower-cased title words
\* and the words of url.replace("/", " ").replace("-", " ").
Pages ==
    { [title |-> {"react", "hooks", "guide"},
       url   |-> {"https:", "react.dev", "hooks"}],
      [title |-> {"pasta", "recipes"},
       url   |-> {"https:", "food.test", "pasta"}] }

\* The candidates that are validated on their own: the pages above, a page
\* that shares one word with the queries in its title only and one that
\* shares one word in its URL only.
CandidatePages ==
    Pages \cup { [title |-> {"react", "news"},
                  url   |-> {"https:", "blog.test", "weekly"}],
                 [title |-> {"home"},
                  url   |-> {"https:", "docs.test", "hooks"}] }

\* The page lists a backend or the API can report: at most MaxEngineResults pages.
PageLists == UNION { [1..k -> Pages] : k \in 0..MaxEngineResults }

\* The results extracted from a page list, each tagged with its source.
ResultsFrom(pages, source) ==
    [i \in 1..Len(pages) |->
        [title |-> pages[i].title, url |-> pages[i].url, source |-> source]]

\* list[:n] for n >= 0
Take(list, n) == SubSeq(list, 1, IF n < Len(list) THEN n ELSE Len(list))

\* _calculate_relevance_score, in thousandths: 0.7 x the share of the query
\* words in the title + 0.3 x their share in the URL.
CalculateRelevanceScore(title, url, query_words) ==
    LET n  == Cardinality(query_words)
        tm == Cardinality(query_words \cap title)
        um == Cardinality(query_words \cap url)
    IN  (IF tm > 0 THEN (700 * tm) \div n ELSE 0)
        + (IF um > 0 THEN (300 * um) \div n ELSE 0)

\* list.sort(key=relevance_score, reverse=True): a stable insertion sort
RECURSIVE InsertByScore(_, _)
InsertByScore(sorted, item) ==
    IF sorted = <<>> THEN <<item>>
    ELSE IF Head(sorted).relevance_score >= item.relevance_score
         THEN <<Head(sorted)>> \o InsertByScore(Tail(sorted), item)
         ELSE <<item>> \o sorted

RECURSIVE SortByScore(_)
SortByScore(list) ==
    IF list = <<>> THEN <<>>
    ELSE InsertByScore(SortByScore(SubSeq(list, 1, Len(list) - 1)), list[Len(list)])

\* _validate_search_results: keep the results scoring above 0.1, best first
ValidateSearchResults(results, query) ==
    LET scored == [i \in 1..Len(results) |->
                     [title |-> results[i].title, url |-> results[i].url,
                      source |-> results[i].source,
                      relevance_score |->
                          CalculateRelevanceScore(results[i].title, results[i].url,
                                                  QueryWords(query))]]
    IN  SortByScore(SelectSeq(scored, LAMBDA r : r.relevance_score > 100))

\* No _validate_search_results call has just returned.
NoValidation == [query |-> "", results |-> <<>>, kept |-> <<>>]

\* _validate_search_results(results, query), called on the results of a
\* backend or of the API
ValidateCall(pages, source, query) ==
    /\ validation' = [query |-> query, results |-> ResultsFrom(pages, source),
                      kept |-> ValidateSearchResults(ResultsFrom(pages, source),
                                                     query)]
    /\ UNCHANGED <<scraperVars, searchVars, detectorVars, limiterVars,
                   backoff, batch, validator, laterVars>>

\* get_success_rate()[domain], in hundredths, with _get_prioritized_engines'
\* default for a domain without metrics.  The metrics are keyed by the
\* domains of scraped URLs.
SuccessRate(domain) ==
    IF domain \in Domains /\ success_metrics[domain] + failure_metrics[domain] > 0
    THEN (100 * success_metrics[domain])
         \div (success_metrics[domain] + failure_metrics[domain])
    ELSE DefaultSuccessRate

\* _get_prioritized_engines: the engines by descending success rate, engines
\* of equal rate in the order of self.search_engines (the sort is stable).
GetPrioritizedEngines ==
    LET n == Len(SearchEngines)
        rate(i) == SuccessRate(EngineDomain(SearchEngines[i]))
        perm == CHOOSE p \in [1..n -> 1..n] :
                   /\ \A i, j \in 1..n : i # j => p[i] # p[j]
                   /\ \A i, j \in 1..n :
                        i < j => \/ rate(p[i]) > rate(p[j])
                                 \/ rate(p[i]) = rate(p[j]) /\ p[i] < p[j]
    IN  [i \in 1..n |-> SearchEngines[perm[i]]]

FallbackItem(category, rank) ==
    [source |-> "intelligent_fallback", category |-> category, rank |-> rank]

\* A generator that cuts the list one entry short of max_results.
GenerateResultsShort(category, count, max_results) ==
    [i \in 1..(IF max_results - 1 < count THEN max_results - 1 ELSE count) |->
        FallbackItem(category, i)]

\* _generate_react_results / _generate_domain_specific_results: the first
\* max_results of the count entries of the category's list
GenerateResults(category, count, max_results) ==
    [i \in 1..(IF max_results < count THEN max_results ELSE count) |->
        FallbackItem(category, i)]

\* _intelligent_fallback_search
IntelligentFallbackSearch(query, max_results) ==
    LET words == QueryWords(query)
    IN  IF words \cap {"react", "reactjs", "react.js"} # {}
        THEN GenerateResults("react", ReactResultCount, max_results)
        ELSE IF words \cap {"python", "javascript", "java", "programming"} # {}
        THEN GenerateResults("programming", FallbackDomainCount, max_results)
        ELSE IF words \cap {"science", "research", "study"} # {}
        THEN GenerateResults("research", FallbackDomainCount, max_results)
        ELSE GenerateResults("general", FallbackDomainCount, max_results)

\* via records which stage produced the returned list, called the engines
\* that were called, in order, each with its relevant results (none when it
\* raised).
IdleSearch == [pc |-> "idle", query |-> "", max_results |-> 0, order |-> <<>>,
               idx |-> 0, result |-> <<>>, via |-> "none", called |-> <<>>]

\* The engine the loop of search_google is at.
CurrentEngine == search.order[search.idx]

\* search_google is called: the engines are put in priority order.
StartSearch(query, max_results) ==
    /\ search.pc \in {"idle", "done"}
    /\ searches < MaxSearches
    /\ searches' = searches + 1
    /\ search' = [pc |-> "engines", query |-> query, max_results |-> max_results,
                  order |-> GetPrioritizedEngines, idx |-> 1, result |-> <<>>,
                  via |-> "none", called |-> <<>>]
    /\ UNCHANGED <<scraperVars, detectorVars,
                   limiterVars, restVars>>

\* The loop moves to the next engine, or past the last one to the API fallback.
NextEngine(s) ==
    IF s.idx < Len(s.order) THEN [s EXCEPT !.idx = @ + 1] ELSE [s EXCEPT !.pc = "api"]

\* The search after a call of its current engine that produced valid.
Called(s, valid) ==
    [s EXCEPT !.called = Append(@, [engine |-> s.order[s.idx], valid |-> valid])]

\* The breaker of the current engine is open: the engine is skipped.
SkipEngine ==
    LET d == EngineDomain(CurrentEngine)
    IN  /\ search.pc = "engines"
        /\ ShouldCircuitBreak(circuit_breakers[d])
        /\ search' = NextEngine(search)
        /\ UNCHANGED <<scraperVars, searches, detectorVars,
                   limiterVars, restVars>>

\* The current engine is called and returns results (page_ok: without a page
\* every engine raises).  Relevant results end the search; none count as a
\* failure of the engine.
EngineReturns(pages) ==
    LET d == EngineDomain(CurrentEngine)
        b == BreakerAfterCheck(circuit_breakers[d])
        results == ResultsFrom(Take(pages, search.max_results), CurrentEngine)
        valid == ValidateSearchResults(results, search.query)
    IN  /\ search.pc = "engines"
        /\ ~ShouldCircuitBreak(circuit_breakers[d])
        /\ page_ok
        /\ IF valid # <<>>
           THEN /\ b.success_count < MaxSuccessCount
                /\ search' = [Called(search, valid) EXCEPT
                                 !.pc = "done", !.result = valid, !.via = "engine"]
                /\ circuit_breakers' = [circuit_breakers EXCEPT
                                          ![d] = UpdateCircuitBreaker(b, TRUE)]
           ELSE /\ b.failure_count < MaxFailureCount
                /\ search' = NextEngine(Called(search, valid))
                /\ circuit_breakers' = [circuit_breakers EXCEPT
                                          ![d] = UpdateCircuitBreaker(b, FALSE)]
        /\ UNCHANGED <<detectorVars, max_retries, enable_circuit_breaker, page_ok,
                       success_metrics, failure_metrics, now, task, consecutive,
                       url_outcomes, searches,
                   limiterVars, restVars>>

\* The current engine is called and raises.
EngineRaises ==
    LET d == EngineDomain(CurrentEngine)
        b == BreakerAfterCheck(circuit_breakers[d])
    IN  /\ search.pc = "engines"
        /\ ~ShouldCircuitBreak(circuit_breakers[d])
        /\ b.failure_count < MaxFailureCount
        /\ search' = NextEngine(Called(search, <<>>))
        /\ circuit_breakers' = [circuit_breakers EXCEPT
                                  ![d] = UpdateCircuitBreaker(b, FALSE)]
        /\ UNCHANGED <<detectorVars, max_retries, enable_circuit_breaker, page_ok,
                       success_metrics, failure_metrics, now, task, consecutive,
                       url_outcomes, searches,
                   limiterVars, restVars>>

\* Every engine failed or was skipped: _requests_based_search returns results
\* (none when the request fails: it catches its own exceptions); relevant ones
\* are returned, otherwise _intelligent_fallback_search's.
ApiFallback(pages) ==
    LET results == ResultsFrom(Take(pages, search.max_results), "duckduckgo_api")
        valid == ValidateSearchResults(results, search.query)
    IN  /\ search.pc = "api"
        /\ search' = [search EXCEPT
                        !.pc = "done",
                        !.via = IF results # <<>> /\ valid # <<>>
                                THEN "api" ELSE "fallback",
                        !.result = IF results # <<>> /\ valid # <<>>
                                   THEN valid
                                   ELSE IntelligentFallbackSearch(search.query,
                                                                  search.max_results)]
        /\ UNCHANGED <<scraperVars, searches, detectorVars,
                   limiterVars, restVars>>

(***************************************************************************)
(* EnhancedSimilarityDetector: the persisted query cache.                  *)
(***************************************************************************)
\* The query strings of the model: two members of the web-automation
\* technology set and a query that names none.
DetectorQueries == {"best resources for Playwright", "best resources for Selenium",
                    "latest browser automation resources"}

\* The queries of the lookup scenarios: two companies of one group, two
\* wordings of one question, and two tutorials whose topic groups
\* (programming_languages, web_automation) are listed as incompatible.
ScenarioQueries == {"Tata Steel current share price", "Tata Motors share price",
                    "best restaurants in NYC", "top restaurants in New York City",
                    "Python tutorial", "Selenium tutorial"}

\* The queries that are stored to observe the TTL policy and the record key:
\* a stable-content query and a second spelling of it (lower case, two
\* blanks), a tutorial query with "now" inside one of its words, a
\* time-sensitive query and a query without indicator.
StoreQueries == {"Python tutorial", "python  tutorial", "knowledge graph tutorial",
                 "weather in London", "best restaurants in NYC"}

\* The query strings generate_embedding refuses: not text or not text.strip()
EmptyQueries == {"", "   "}

AllQueries == DetectorQueries \cup ScenarioQueries \cup StoreQueries

\* The keywords and indicators of the detector's lists (technology_groups,
\* domain_keywords, the TTL indicators) that occur in query.lower().
SubstringsOf(query) ==
    CASE query = "best resources for Playwright" -> {"playwright"}
      [] query = "best resources for Selenium" -> {"selenium"}
      [] query = "latest browser automation resources" -> {"latest"}
      [] query = "Tata Steel current share price" -> {"current", "price"}
      [] query = "Tata Motors share price" -> {"price"}
      [] query = "best restaurants in NYC" -> {}
      [] query = "top restaurants in New York City" -> {}
      [] query = "Python tutorial" -> {"python", "tutorial"}
      [] query = "Selenium tutorial" -> {"selenium", "tutorial"}
      [] query = "python  tutorial" -> {"python", "tutorial"}
      [] query = "knowledge graph tutorial" -> {"now", "tutorial"}
      [] query = "weather in London" -> {"weather"}

\* EmbeddingService._normalize_text: lower case, single blanks, stop words
\* removed.  The embedding is computed from the normalized text.
NormalizeText(text) ==
    CASE text = "best resources for Playwright" -> "best resources playwright"
      [] text = "best resources for Selenium" -> "best resources selenium"
      [] text = "latest browser automation resources" -> "latest browser automation resources"
      [] text = "Tata Steel current share price" -> "tata steel current share price"
      [] text = "Tata Motors share price" -> "tata motors share price"
      [] text = "best restaurants in NYC" -> "best restaurants nyc"
      [] text = "top restaurants in New York City" -> "top restaurants new york city"
      [] text = "Python tutorial" -> "python tutorial"
      [] text = "Selenium tutorial" -> "selenium tutorial"
      [] text = "python  tutorial" -> "python tutorial"
      [] text = "knowledge graph tutorial" -> "knowledge graph tutorial"
      [] text = "weather in London" -> "weather london"
      [] text \in EmptyQueries -> ""

\* EmbeddingService.generate_embedding raises ValueError("Text cannot be empty")
GenerateEmbeddingRaises(text) == text \in EmptyQueries

\* hashlib.md5(query.encode()).hexdigest(): a digest of the exact string
\* (two different strings of the model have different digests).
QueryHash(query) == <<"md5", query>>

\* _classify_query_for_ttl: time_sensitive_indicators
TimeSensitiveIndicators ==
    {"current", "latest", "recent", "today", "now", "live", "real-time",
     "stock", "price", "weather", "news", "breaking", "trending",
     "score", "match", "game", "market", "traffic", "flight"}

\* _classify_query_for_ttl: stable_indicators
StableIndicators ==
    {"tutorial", "how to", "definition", "meaning", "history",
     "concept", "theory", "basics", "fundamentals", "documentation",
     "reference", "guide", "manual", "specs", "specification"}

\* _classify_query_for_ttl
ClassifyQueryForTtl(query) ==
    IF AnyIn(SubstringsOf(query), TimeSensitiveIndicators) THEN "time_sensitive"
    ELSE IF AnyIn(SubstringsOf(query), StableIndicators) THEN "stable_content"
    ELSE "default"

\* _get_ttl_for_category
GetTtlForCategory(category) ==
    IF category = "time_sensitive" THEN TimeSensitiveTtl
    ELSE IF category = "stable_content" THEN StableContentTtl
    ELSE DefaultTtl

\* The record store_query_with_results builds (the embedding is a function
\* of the query text and is not stored in the model).
\* The result list passed to the n-th store_query_with_results call: each
\* call brings its own.
ResultsOfStore(n) == <<"results of store", n>>

QueryRecord(query, results) ==
    [query |-> query, query_hash |-> QueryHash(query), results |-> results,
     timestamp |-> now,
     category |-> ClassifyQueryForTtl(query),
     ttl_seconds |-> GetTtlForCategory(ClassifyQueryForTtl(query)),
     expires_at |-> now + GetTtlForCategory(ClassifyQueryForTtl(query))]

NoRecord == [query |-> "", query_hash |-> <<>>, results |-> <<>>, timestamp |-> 0,
             category |-> "", ttl_seconds |-> 0, expires_at |-> 0]

\* A SimilarityResult with found_similar=False
NotFound(method) ==
    [found |-> FALSE, method |-> method, best_match |-> NoRecord,
     best_similarity |-> 0, llm_validated |-> FALSE, rank |-> 0]

\* No candidate: _knn_similarity_search returned an empty list or was not run.
NoCandidate == [query |-> "", similarity |-> 0]

\* No find_similar_query call has just ended.  A call that has ended leaves
\* its query, the number of records its load purged, the leading candidate of
\* its KNN search, the candidates it asked the LLM about with the verdicts,
\* whether it raised, and the SimilarityResult it returned.
NoFind == [query |-> "", purged |-> 0, leading |-> NoCandidate, asked |-> <<>>,
           raised |-> FALSE, result |-> NotFound("none")]

\* A load that keeps every record, whatever its expiry.
NotExpiredLax(record, current_time) == TRUE

\* _load_and_clean_stored_queries / clear_expired_queries:
\* current_time <= expiry_time keeps the record
NotExpired(record, current_time) == current_time <= record.expires_at

\* _load_and_clean_stored_queries: the records that are kept
ValidQueries(stored) == SelectSeq(stored, LAMBDA r : NotExpired(r, now))

\* A store that appends without removing the record it replaces.
RemoveHashNever(stored, hash) == stored

\* store_query_with_results: [q for q in stored_queries if q.get("query_hash") != hash]
RemoveHash(stored, hash) == SelectSeq(stored, LAMBDA r : r.query_hash # hash)

\* _initialize_knn_model, given the content of the cache file: the model is
\* left alone when the file holds no record.
InitializeKnnModel(stored) == IF stored = <<>> THEN cached_queries ELSE stored

\* store_query_with_results
StoreQueryWithResults(query, results) ==
    LET record == QueryRecord(query, results)
        stored_queries == RemoveHash(cache_file, record.query_hash) \o <<record>>
    IN  /\ Len(store_log) < MaxStores
        /\ store_log' = Append(store_log, query)
        /\ cache_file' = stored_queries
        /\ cached_queries' = InitializeKnnModel(stored_queries)
        /\ last_find' = NoFind
        /\ UNCHANGED <<strict_mode, enable_llm_validation, openai_client,
                       writers, scraperVars, searchVars,
                   limiterVars, backoff, validation, batch,
                       validator, retrieval, scoring>>

\* clear_expired_queries
ClearExpiredQueries ==
    LET valid == ValidQueries(cache_file)
    IN  /\ cache_file' = valid
        /\ cached_queries' = IF Len(valid) # Len(cache_file)
                             THEN InitializeKnnModel(valid) ELSE cached_queries
        /\ last_find' = NoFind
        /\ UNCHANGED <<strict_mode, enable_llm_validation, openai_client,
                       store_log, writers, scraperVars, searchVars,
                   limiterVars, restVars>>

(***************************************************************************)
(* store_query_with_results run by processes that share the cache file     *)
(* data/similarity_cache.json (the API servers, the CLI, each with its own *)
(* detector).  A call reads the file, builds the new list and writes it    *)
(* back; nothing locks the file between the read and the write.            *)
(***************************************************************************)
Writers == 1..2

\* cached_queries is the KNN model of the writing process's own detector.
IdleWriter == [pc |-> "idle", record |-> NoRecord, stored |-> <<>>,
               cached_queries |-> <<>>]

\* store_query_with_results up to _load_stored_queries: the record is built
\* and the file is read.
WriterLoads(w, query) ==
    /\ writers[w].pc \in {"idle", "done"}
    /\ Len(store_log) < MaxStores
    /\ store_log' = Append(store_log, query)
    /\ writers' = [writers EXCEPT ![w] =
                     [pc |-> "loaded",
                      record |-> QueryRecord(query, ResultsOfStore(Len(store_log) + 1)),
                      stored |-> cache_file,
                      cached_queries |-> writers[w].cached_queries]]
    /\ UNCHANGED <<strict_mode, enable_llm_validation, openai_client, cache_file,
                   cached_queries, last_find, scraperVars, searchVars,
                   limiterVars, restVars>>

\* store_query_with_results from the filter on: the list that was read, less
\* the record of the same hash, plus the new record, is written to the file,
\* and the process rebuilds its KNN model from the file.
WriterSaves(w) ==
    /\ writers[w].pc = "loaded"
    /\ cache_file' = RemoveHash(writers[w].stored, writers[w].record.query_hash)
                        \o <<writers[w].record>>
    /\ writers' = [writers EXCEPT ![w].pc = "done",
                                  ![w].cached_queries = cache_file']
    /\ UNCHANGED <<strict_mode, enable_llm_validation, openai_client,
                   cached_queries, last_find, store_log, scraperVars, searchVars,
                   limiterVars, restVars>>

(***************************************************************************)
(* EnhancedSimilarityDetector: find_similar_query.                         *)
(***************************************************************************)
\* _check_technology_mismatch: technology_groups
TechnologyGroups ==
    << {"playwright", "selenium", "puppeteer", "webdriver"},
       {"python", "java", "javascript", "typescript", "go", "rust", "c++", "c#",
        "php", "ruby"},
       {"react", "vue", "angular", "django", "flask", "express", "spring", "laravel"},
       {"mysql", "postgresql", "mongodb", "redis", "elasticsearch", "cassandra",
        "oracle"},
       {"aws", "azure", "gcp", "google cloud", "amazon web services",
        "microsoft azure"},
       {"jest", "pytest", "mocha", "cypress", "testcafe", "junit", "rspec"},
       {"git", "github", "gitlab", "bitbucket", "svn", "mercurial"},
       {"windows", "linux", "macos", "ubuntu", "centos", "debian", "fedora"},
       {"ios", "android", "react native", "flutter", "xamarin"},
       {"iphone 14", "iphone 15", "iphone 13", "iphone 12"},
       {"docker", "kubernetes", "docker-compose", "openshift"} >>

\* _check_technology_mismatch: some group has members in both queries and no
\* member in both
CheckTechnologyMismatch(query1, query2) ==
    \E g \in 1..Len(TechnologyGroups) :
        LET found_in_query1 == TechnologyGroups[g] \cap SubstringsOf(query1)
            found_in_query2 == TechnologyGroups[g] \cap SubstringsOf(query2)
        IN  /\ found_in_query1 # {}
            /\ found_in_query2 # {}
            /\ found_in_query1 \cap found_in_query2 = {}

\* self.domain_keywords
DomainKeywords ==
    [web_automation |-> {"playwright", "selenium", "puppeteer", "webdriver"},
     programming_languages |-> {"python", "java", "javascript", "typescript", "go",
                                "rust", "c++"},
     web_frameworks |-> {"react", "vue", "angular", "django", "flask", "express"},
     databases |-> {"mysql", "postgresql", "mongodb", "redis", "elasticsearch"},
     cloud_platforms |-> {"aws", "azure", "gcp", "google cloud",
                          "amazon web services"},
     testing_tools |-> {"jest", "pytest", "mocha", "cypress", "testcafe"},
     version_control |-> {"git", "github", "gitlab", "bitbucket", "svn"},
     operating_systems |-> {"windows", "linux", "macos", "ubuntu", "centos"}]

\* _extract_domain_keywords
ExtractDomainKeywords(query) ==
    {d \in DOMAIN DomainKeywords : AnyIn(DomainKeywords[d], SubstringsOf(query))}

\* _are_domains_compatible: incompatible_pairs
IncompatiblePairs ==
    { {"web_automation", "programming_languages"}, {"web_frameworks", "databases"},
      {"testing_tools", "cloud_platforms"},
      {"programming_languages", "web_frameworks"},
      {"databases", "cloud_platforms"}, {"version_control", "testing_tools"} }

\* _are_domains_compatible
AreDomainsCompatible(domains1, domains2) ==
    IF domains1 = {} \/ domains2 = {} THEN TRUE
    ELSE IF domains1 \cap domains2 # {} THEN TRUE
    ELSE ~\E domain1 \in domains1, domain2 \in domains2, pair \in IncompatiblePairs :
            domain1 \in pair /\ domain2 \in pair /\ domain1 # domain2

\* _calculate_textual_similarity: SequenceMatcher(None, query1.lower(),
\* query2.lower()).ratio(), in hundredths (rounded down); the ratio depends
\* on the order of its arguments
TextualSimilarity(query1, query2) ==
    CASE query1 = query2 -> 100
      [] query1 = "best resources for Playwright"
         /\ query2 = "best resources for Selenium" -> 75
      [] query1 = "best resources for Playwright"
         /\ query2 = "latest browser automation resources" -> 40
      [] query1 = "best resources for Selenium"
         /\ query2 = "best resources for Playwright" -> 75
      [] query1 = "best resources for Selenium"
         /\ query2 = "latest browser automation resources" -> 41
      [] query1 = "latest browser automation resources"
         /\ query2 = "best resources for Playwright" -> 40
      [] query1 = "latest browser automation resources"
         /\ query2 = "best resources for Selenium" -> 41
      [] query1 = "Tata Steel current share price"
         /\ query2 = "Tata Motors share price" -> 67
      [] query1 = "Tata Steel current share price"
         /\ query2 = "best restaurants in NYC" -> 33
      [] query1 = "Tata Steel current share price"
         /\ query2 = "top restaurants in New York City" -> 25
      [] query1 = "Tata Steel current share price"
         /\ query2 = "Python tutorial" -> 22
      [] query1 = "Tata Steel current share price"
         /\ query2 = "Selenium tutorial" -> 34
      [] query1 = "Tata Motors share price"
         /\ query2 = "Tata Steel current share price" -> 71
      [] query1 = "Tata Motors share price"
         /\ query2 = "best restaurants in NYC" -> 30
      [] query1 = "Tata Motors share price"
         /\ query2 = "top restaurants in New York City" -> 29
      [] query1 = "Tata Motors share price"
         /\ query2 = "Python tutorial" -> 31
      [] query1 = "Tata Motors share price"
         /\ query2 = "Selenium tutorial" -> 25
      [] query1 = "best restaurants in NYC"
         /\ query2 = "Tata Steel current share price" -> 41
      [] query1 = "best restaurants in NYC"
         /\ query2 = "Tata Motors share price" -> 30
      [] query1 = "best restaurants in NYC"
         /\ query2 = "top restaurants in New York City" -> 72
      [] query1 = "best restaurants in NYC"
         /\ query2 = "Python tutorial" -> 15
      [] query1 = "best restaurants in NYC"
         /\ query2 = "Selenium tutorial" -> 20
      [] query1 = "top restaurants in New York City"
         /\ query2 = "Tata Steel current share price" -> 32
      [] query1 = "top restaurants in New York City"
         /\ query2 = "Tata Motors share price" -> 29
      [] query1 = "top restaurants in New York City"
         /\ query2 = "best restaurants in NYC" -> 72
      [] query1 = "top restaurants in New York City"
         /\ query2 = "Python tutorial" -> 17
      [] query1 = "top restaurants in New York City"
         /\ query2 = "Selenium tutorial" -> 16
      [] query1 = "Python tutorial"
         /\ query2 = "Tata Steel current share price" -> 13
      [] query1 = "Python tutorial"
         /\ query2 = "Tata Motors share price" -> 31
      [] query1 = "Python tutorial"
         /\ query2 = "best restaurants in NYC" -> 15
      [] query1 = "Python tutorial"
         /\ query2 = "top restaurants in New York City" -> 29
      [] query1 = "Python tutorial"
         /\ query2 = "Selenium tutorial" -> 62
      [] query1 = "Selenium tutorial"
         /\ query2 = "Tata Steel current share price" -> 34
      [] query1 = "Selenium tutorial"
         /\ query2 = "Tata Motors share price" -> 25
      [] query1 = "Selenium tutorial"
         /\ query2 = "best restaurants in NYC" -> 25
      [] query1 = "Selenium tutorial"
         /\ query2 = "top restaurants in New York City" -> 16
      [] query1 = "Selenium tutorial"
         /\ query2 = "Python tutorial" -> 62

\* The cosine similarity of the embeddings of two different queries is an
\* input: below the base threshold, at the base threshold (below the strict
\* final threshold), or at the strict final threshold.
SimilarityValues == {80, 85, 90}

\* The queries of the records in the cache file.
StoredTexts == {cache_file[i].query : i \in 1..Len(cache_file)}

\* The similarities of query to the stored query texts: 1.0 to a text with the
\* same normalized text, whose embedding is the same (the similarity to a
\* text that is not stored is never computed).
Similarities(query) ==
    {[q \in AllQueries |->
         IF NormalizeText(q) = NormalizeText(query) THEN 100
         ELSE IF q \in StoredTexts THEN s[NormalizeText(q)] ELSE 80] :
        s \in [{NormalizeText(t) : t \in StoredTexts} \ {NormalizeText(query)}
                 -> SimilarityValues]}

\* What _llm_validate_similarity can answer (on an error: not similar, 0.0)
LlmAnswers == {[is_similar |-> FALSE, confidence |-> 0],
               [is_similar |-> TRUE, confidence |-> 50],
               [is_similar |-> TRUE, confidence |-> 90]}

\* similar_queries.sort(key=lambda x: x[1], reverse=True): stable
RECURSIVE InsertBySimilarity(_, _)
InsertBySimilarity(sorted, item) ==
    IF sorted = <<>> THEN <<item>>
    ELSE IF Head(sorted).similarity >= item.similarity
         THEN <<Head(sorted)>> \o InsertBySimilarity(Tail(sorted), item)
         ELSE <<item>> \o sorted

RECURSIVE SortBySimilarity(_)
SortBySimilarity(list) ==
    IF list = <<>> THEN <<>>
    ELSE InsertBySimilarity(SortBySimilarity(SubSeq(list, 1, Len(list) - 1)),
                            list[Len(list)])

\* EmbeddingService.find_similar_queries
TraditionalSimilaritySearch(stored, sim) ==
    SortBySimilarity(SelectSeq(
        [i \in 1..Len(stored) |->
            [record |-> stored[i], similarity |-> sim[stored[i].query]]],
        LAMBDA c : c.similarity >= SimilarityThreshold))

\* _knn_similarity_search, the model it searches: rebuilt from the file when
\* there is none or when it holds another number of records than stored.
KnnModelFor(stored) ==
    IF cached_queries = <<>> \/ Len(stored) # Len(cached_queries)
    THEN InitializeKnnModel(stored) ELSE cached_queries

\* _knn_similarity_search: the nearest min(knn_neighbors, len(stored)) records
\* of the model, those at or above the threshold read from stored by their
\* index in the model, best first; any error falls back to the traditional search.
KnnSimilaritySearch(stored, knn, sim) ==
    LET k == IF KnnNeighbors < Len(stored) THEN KnnNeighbors ELSE Len(stored)
        neighbours == SortBySimilarity(
            [i \in 1..Len(knn) |-> [idx |-> i, similarity |-> sim[knn[i].query]]])
        kept == SelectSeq(Take(neighbours, k),
                          LAMBDA c : c.similarity >= SimilarityThreshold)
    IN  IF Len(knn) < k \/ \E i \in 1..Len(kept) : kept[i].idx > Len(stored)
        THEN TraditionalSimilaritySearch(stored, sim)
        ELSE [i \in 1..Len(kept) |->
                [record |-> stored[kept[i].idx], similarity |-> kept[i].similarity]]

\* _domain_specific_validation
DomainSpecificValidation(query, similar_queries) ==
    SelectSeq(similar_queries,
              LAMBDA c : AreDomainsCompatible(ExtractDomainKeywords(query),
                                              ExtractDomainKeywords(c.record.query)))

\* llm_result["is_similar"] and llm_result.get("confidence", 0) >= 0.7
LlmAccepts(answer) == answer.is_similar /\ answer.confidence >= MinLlmConfidence

\* A SimilarityResult with found_similar=True: the candidate of the given rank
\* among similar_queries is the best_match.
Found(method, similar_queries, rank, llm_validated) ==
    [found |-> TRUE, method |-> method,
     best_match |-> similar_queries[rank].record,
     best_similarity |-> similar_queries[rank].similarity,
     llm_validated |-> llm_validated, rank |-> rank]

\* A final threshold without the strict margin.
FinalThresholdNoMargin == SimilarityThreshold

\* A final threshold with the strict margin in every mode.
FinalThresholdAlwaysStrict == SimilarityThreshold + StrictMargin

\* find_similar_query, stage 6: self.similarity_threshold + 0.05 if
\* self.strict_mode else self.similarity_threshold
FinalThreshold ==
    IF strict_mode THEN SimilarityThreshold + StrictMargin ELSE SimilarityThreshold

\* find_similar_query from stage 3 on: similar_queries is not empty.
ValidateBestMatch(query, similar_queries, llm) ==
    LET best_match == similar_queries[1].record
        best_similarity == similar_queries[1].similarity
        final == IF best_similarity >= FinalThreshold
                 THEN Found("embedding_only", similar_queries, 1, FALSE)
                 ELSE NotFound("strict_filtered")
        others == {j \in 2..Len(similar_queries) :
                      /\ similar_queries[j].similarity >= LlmValidationThreshold
                      /\ LlmAccepts(llm[similar_queries[j].record.query])}
    IN  IF CheckTechnologyMismatch(query, best_match.query)
        THEN NotFound("technology_mismatch")
        ELSE IF TextualSimilarity(query, best_match.query) < MinTextualSimilarity
        THEN NotFound("textual_filtered")
        ELSE IF enable_llm_validation /\ openai_client
                /\ best_similarity >= LlmValidationThreshold
        THEN IF LlmAccepts(llm[best_match.query])
             THEN Found("llm_validated", similar_queries, 1, TRUE)
             ELSE IF others # {}
             THEN Found("llm_validated", similar_queries,
                        CHOOSE j \in others : \A i \in others : j <= i, TRUE)
             ELSE final
        ELSE final

\* find_similar_query on the records its load kept
FindResult(query, stored, knn, sim, llm) ==
    LET similar_queries == KnnSimilaritySearch(stored, knn, sim)
        filtered == IF strict_mode
                    THEN DomainSpecificValidation(query, similar_queries)
                    ELSE similar_queries
    IN  IF stored = <<>> THEN NotFound("no_cache")
        ELSE IF similar_queries = <<>> THEN NotFound("embedding_only")
        ELSE IF filtered = <<>> THEN NotFound("domain_filtered")
        ELSE ValidateBestMatch(query, filtered, llm)

\* The _llm_validate_similarity calls of stage 5, in order: the leading
\* candidate, then, if it was rejected, the others at or above the LLM
\* threshold up to the first that is accepted.
RECURSIVE AskOthers(_, _, _)
AskOthers(similar_queries, j, llm) ==
    IF j > Len(similar_queries) THEN <<>>
    ELSE IF similar_queries[j].similarity < LlmValidationThreshold
    THEN AskOthers(similar_queries, j + 1, llm)
    ELSE LET accepted == LlmAccepts(llm[similar_queries[j].record.query])
         IN  <<[query |-> similar_queries[j].record.query, accepted |-> accepted]>>
             \o (IF accepted THEN <<>> ELSE AskOthers(similar_queries, j + 1, llm))

LlmCalls(query, stored, knn, sim, llm) ==
    LET similar_queries == KnnSimilaritySearch(stored, knn, sim)
        filtered == IF strict_mode
                    THEN DomainSpecificValidation(query, similar_queries)
                    ELSE similar_queries
    IN  IF stored = <<>> \/ filtered = <<>> THEN <<>>
        ELSE IF CheckTechnologyMismatch(query, filtered[1].record.query) THEN <<>>
        ELSE IF TextualSimilarity(query, filtered[1].record.query)
                < MinTextualSimilarity THEN <<>>
        ELSE IF ~(enable_llm_validation /\ openai_client
                  /\ filtered[1].similarity >= LlmValidationThreshold) THEN <<>>
        ELSE IF LlmAccepts(llm[filtered[1].record.query])
        THEN <<[query |-> filtered[1].record.query, accepted |-> TRUE]>>
        ELSE <<[query |-> filtered[1].record.query, accepted |-> FALSE]>>
             \o AskOthers(filtered, 2, llm)

\* The leading candidate of the KNN search of a lookup.
LeadingCandidate(stored, knn, sim) ==
    LET similar_queries == KnnSimilaritySearch(stored, knn, sim)
    IN  IF stored = <<>> \/ similar_queries = <<>> THEN NoCandidate
        ELSE [query |-> similar_queries[1].record.query,
              similarity |-> similar_queries[1].similarity]

\* The answers of the LLM to the questions of one find_similar_query call,
\* by the stored query text asked about; without a client it is not asked.
LlmInputs ==
    LET asked == IF enable_llm_validation /\ openai_client THEN StoredTexts ELSE {}
    IN  {[q \in AllQueries |-> IF q \in asked THEN a[q]
                                    ELSE [is_similar |-> FALSE, confidence |-> 0]] :
            a \in [asked -> LlmAnswers]}

\* find_similar_query: the load purges the expired records (the file is
\* rewritten when some were removed), then the stages run on what is left.
\* last_find holds the result until the next call; a lookup that follows a
\* lookup is modelled with a clear_expired_queries call in between, which
\* finds nothing left to remove.  With records left, the KNN search embeds
\* the query outside its try block: generate_embedding's ValueError for an
\* empty query leaves find_similar_query.
FindSimilarQuery(query) ==
    LET stored == ValidQueries(cache_file)
        knn == IF stored = <<>> THEN cached_queries ELSE KnnModelFor(stored)
        purged == Len(cache_file) - Len(stored)
    IN  /\ last_find = NoFind
        /\ cache_file' = stored
        /\ cached_queries' = knn
        /\ IF stored # <<>> /\ GenerateEmbeddingRaises(query)
           THEN last_find' = [NoFind EXCEPT !.query = query, !.purged = purged,
                                           !.raised = TRUE]
           ELSE \E sim \in Similarities(query), llm \in LlmInputs :
                   last_find' = [query |-> query, purged |-> purged,
                                 leading |-> LeadingCandidate(stored, knn, sim),
                                 asked |-> LlmCalls(query, stored, knn, sim, llm),
                                 raised |-> FALSE,
                                 result |-> FindResult(query, stored, knn, sim, llm)]
        /\ UNCHANGED <<strict_mode, enable_llm_validation, openai_client,
                       store_log, writers, scraperVars, searchVars,
                   limiterVars, backoff, validation, batch,
                       validator, retrieval, scoring>>

\* _calculate_confidence_score, in thousandths, of similarities and a
\* confidence in hundredths: 0.4, 0.3 and 0.3 are the weights.
CalculateConfidenceScore(embedding_similarity, textual_similarity, llm_confidence) ==
    4 * embedding_similarity + 3 * textual_similarity + 3 * llm_confidence

\* find_similar_query from stage 3 on, the confidence_score of the result it
\* returns with found_similar=True: textual_similarity is the one computed
\* at stage 4, and llm_result at stage 6 is the answer to the last question
\* of stage 5, if any was asked.
ConfidenceScore(query, similar_queries, llm) ==
    LET best_match == similar_queries[1].record
        best_similarity == similar_queries[1].similarity
        textual_similarity == TextualSimilarity(query, best_match.query)
        others == {j \in 2..Len(similar_queries) :
                      /\ similar_queries[j].similarity >= LlmValidationThreshold
                      /\ LlmAccepts(llm[similar_queries[j].record.query])}
        first == CHOOSE j \in others : \A i \in others : j <= i
        questions == <<[query |-> best_match.query, accepted |-> FALSE]>>
                        \o AskOthers(similar_queries, 2, llm)
        llm_result == llm[questions[Len(questions)].query]
    IN  IF enable_llm_validation /\ openai_client
           /\ best_similarity >= LlmValidationThreshold
        THEN IF LlmAccepts(llm[best_match.query])
             THEN CalculateConfidenceScore(best_similarity, textual_similarity,
                                           llm[best_match.query].confidence)
             ELSE IF others # {}
             THEN CalculateConfidenceScore(
                      similar_queries[first].similarity, textual_similarity,
                      llm[similar_queries[first].record.query].confidence)
             ELSE CalculateConfidenceScore(best_similarity, textual_similarity,
                                           llm_result.confidence)
        ELSE CalculateConfidenceScore(best_similarity, textual_similarity, 0)

\* No score: no find_similar_query call has been followed to its score.
NoScore == [confidence_score |-> 0, llm |-> <<>>]

\* find_similar_query on a cache with records, query not empty, with the
\* similarities sim and the LLM's answers llm: as FindSimilarQuery, and the
\* confidence_score of the result is kept with the answers.
ScoredLookup(query, sim, llm) ==
    LET stored == ValidQueries(cache_file)
        knn == IF stored = <<>> THEN cached_queries ELSE KnnModelFor(stored)
        similar_queries == KnnSimilaritySearch(stored, knn, sim)
        filtered == IF strict_mode
                    THEN DomainSpecificValidation(query, similar_queries)
                    ELSE similar_queries
        result == FindResult(query, stored, knn, sim, llm)
    IN  /\ last_find = NoFind
        /\ stored # <<>>
        /\ ~GenerateEmbeddingRaises(query)
        /\ cache_file' = stored
        /\ cached_queries' = knn
        /\ last_find' = [query |-> query, purged |-> Len(cache_file) - Len(stored),
                         leading |-> LeadingCandidate(stored, knn, sim),
                         asked |-> LlmCalls(query, stored, knn, sim, llm),
                         raised |-> FALSE,
                         result |-> result]
        /\ scoring' = [confidence_score |->
                         IF result.found THEN ConfidenceScore(query, filtered, llm)
                         ELSE 0,
                      llm |-> llm]
        /\ UNCHANGED <<strict_mode, enable_llm_validation, openai_client,
                       store_log, writers, scraperVars, searchVars, limiterVars,
                       backoff, validation, batch, validator, retrieval, request>>

\* The instants at which a time-sensitive record stored at time 0 is about
\* to expire and has just expired: the clock of the model stops there.
ExpiryInstants == {TimeSensitiveTtl, TimeSensitiveTtl + 1}

\* Time passes up to an expiry instant.
Elapse(instant) ==
    /\ instant > now
    /\ now' = instant
    /\ last_find' = NoFind
    /\ UNCHANGED <<strict_mode, enable_llm_validation, openai_client, cache_file,
                   cached_queries, store_log, writers, max_retries,
                   enable_circuit_breaker, page_ok,
                   circuit_breakers, success_metrics, failure_metrics, task,
                   consecutive, url_outcomes, searchVars,
                   limiterVars, restVars>>

(***************************************************************************)
(* Batches of retrievals: scrape_multiple_pages and batch_scrape.          *)
(***************************************************************************)
BatchUrls == {"https://site.test/page", "https://example.com/topic"}

\* The URL lists of the calls: up to MaxUrls URLs, a URL may stand twice.
BatchUrlLists == UNION {[1..k -> BatchUrls] : k \in 0..MaxUrls}

\* No call under way, on an agent made with max_concurrent_requests.
\* coroutines[k] is the state of the retrieval of urls[k], retrievals[k] the
\* number of times it was started, i the loop index of scrape_multiple_pages,
\* semaphore the value of the semaphore of batch_scrape, results the
\* positions of the retrievals whose result is in the returned list.
NoBatch(max_concurrent_requests) ==
    [kind |-> "none", pc |-> "idle", urls |-> <<>>, coroutines |-> <<>>,
     retrievals |-> <<>>, i |-> 0, semaphore |-> 0, results |-> <<>>,
     max_concurrent_requests |-> max_concurrent_requests]

BatchFromAll(i, n) == {k \in 1..n : i < k}

\* tasks[i:i+2]: the positions (from 1) of the coroutines of the batch at i
BatchFrom(i, n) == {k \in 1..n : i < k /\ k <= i + BatchSize}

\* The retrieval has ended: with a result, or with an exception that gather
\* hands back (return_exceptions=True).
HasEnded(coroutine) == coroutine \in {"returned", "raised"}

\* The positions in ps whose retrieval gave a result, in order.
RECURSIVE ValidResults(_, _, _)
ValidResults(coroutines, k, ps) ==
    IF k > Len(coroutines) THEN <<>>
    ELSE (IF k \in ps /\ coroutines[k] = "returned" THEN <<k>> ELSE <<>>)
         \o ValidResults(coroutines, k + 1, ps)

\* scrape_multiple_pages(urls): one coroutine object per URL, none started.
ScrapeMultiplePages(urls) ==
    /\ batch.pc \in {"idle", "returned"}
    /\ batch' = [batch EXCEPT
                   !.kind = "scrape_multiple_pages",
                   !.pc = IF Len(urls) = 0 THEN "returned" ELSE "gather",
                   !.urls = urls,
                   !.coroutines = [k \in 1..Len(urls) |-> "created"],
                   !.retrievals = [k \in 1..Len(urls) |-> 0],
                   !.i = 0, !.semaphore = 0, !.results = <<>>]
    /\ UNCHANGED <<scraperVars, searchVars, detectorVars, limiterVars,
                   backoff, validation, validator, laterVars>>

\* asyncio.gather(*batch): the coroutines of the batch start.
GatherBatch ==
    LET n == Len(batch.urls)
        started == BatchFrom(batch.i, n)
    IN  /\ batch.kind = "scrape_multiple_pages"
        /\ batch.pc = "gather"
        /\ batch' = [batch EXCEPT
                       !.pc = "await",
                       !.coroutines = [k \in 1..n |->
                           IF k \in started THEN "running" ELSE @[k]],
                       !.retrievals = [k \in 1..n |->
                           IF k \in started THEN @[k] + 1 ELSE @[k]]]
        /\ UNCHANGED <<scraperVars, searchVars, detectorVars, limiterVars,
                       backoff, validation, validator, laterVars>>

\* A retrieval under way ends; in batch_scrape leaving `async with semaphore`
\* releases the semaphore.
RetrievalEnds(k, outcome) ==
    /\ batch.pc = "await"
    /\ k \in 1..Len(batch.coroutines)
    /\ batch.coroutines[k] = "running"
    /\ batch' = [batch EXCEPT
                   !.coroutines[k] = outcome,
                   !.semaphore = IF batch.kind = "batch_scrape" THEN @ + 1 ELSE @]
    /\ UNCHANGED <<scraperVars, searchVars, detectorVars, limiterVars,
                   backoff, validation, validator, laterVars>>

\* gather returns once every coroutine of the batch has ended: the results
\* are appended, and the loop sleeps if there is another batch.
BatchReturns ==
    LET n == Len(batch.urls)
        gathered == BatchFrom(batch.i, n)
    IN  /\ batch.kind = "scrape_multiple_pages"
        /\ batch.pc = "await"
        /\ \A k \in gathered : HasEnded(batch.coroutines[k])
        /\ batch' = [batch EXCEPT
                       !.results = @ \o ValidResults(batch.coroutines, 1, gathered),
                       !.pc = IF batch.i + BatchSize < n THEN "sleep" ELSE "returned"]
        /\ UNCHANGED <<scraperVars, searchVars, detectorVars, limiterVars,
                       backoff, validation, validator, laterVars>>

\* The sleep between two batches ends: the loop goes on with i + 2.
NextBatch ==
    /\ batch.kind = "scrape_multiple_pages"
    /\ batch.pc = "sleep"
    /\ batch' = [batch EXCEPT !.i = @ + BatchSize, !.pc = "gather"]
    /\ UNCHANGED <<scraperVars, searchVars, detectorVars, limiterVars,
                   backoff, validation, validator, laterVars>>

\* batch_scrape(urls): a semaphore of max_concurrent_requests, one
\* scrape_single coroutine per URL, all handed to one asyncio.gather; each
\* runs up to `async with semaphore`.
BatchScrape(urls) ==
    /\ batch.pc \in {"idle", "returned"}
    /\ batch' = [batch EXCEPT
                   !.kind = "batch_scrape",
                   !.pc = "await",
                   !.urls = urls,
                   !.coroutines = [k \in 1..Len(urls) |-> "waiting"],
                   !.retrievals = [k \in 1..Len(urls) |-> 0],
                   !.i = 0, !.semaphore = batch.max_concurrent_requests,
                   !.results = <<>>]
    /\ UNCHANGED <<scraperVars, searchVars, detectorVars, limiterVars,
                   backoff, validation, validator, laterVars>>

\* scrape_single(urls[k]) acquires the semaphore (the waiters are served in
\* the order in which they came) and calls scrape_content.
ScrapeSingle(k) ==
    /\ batch.kind = "batch_scrape"
    /\ batch.pc = "await"
    /\ k \in 1..Len(batch.coroutines)
    /\ batch.coroutines[k] = "waiting"
    /\ \A k2 \in 1..(k - 1) : batch.coroutines[k2] # "waiting"
    /\ batch.semaphore > 0
    /\ batch' = [batch EXCEPT !.coroutines[k] = "running",
                              !.retrievals[k] = @ + 1,
                              !.semaphore = @ - 1]
    /\ UNCHANGED <<scraperVars, searchVars, detectorVars, limiterVars,
                   backoff, validation, validator, laterVars>>

\* The gather of batch_scrape returns once every coroutine has ended; the
\* exceptions are filtered out.
BatchScrapeReturns ==
    LET n == Len(batch.urls)
    IN  /\ batch.kind = "batch_scrape"
        /\ batch.pc = "await"
        /\ \A k \in 1..n : HasEnded(batch.coroutines[k])
        /\ batch' = [batch EXCEPT
                       !.results = ValidResults(batch.coroutines, 1, 1..n),
                       !.pc = "returned"]
        /\ UNCHANGED <<scraperVars, searchVars, detectorVars, limiterVars,
                       backoff, validation, validator, laterVars>>

(***************************************************************************)
(* The query validator.                                                    *)
(***************************************************************************)
\* The queries of the validate_query calls.  Their words are plain words, so
\* that \b and \s+ of the patterns fall on the blanks between the words.
ValidatorQueries == {"", "   ", "call mom", "what is rust", "rust async",
                     " Rust Async", "get milk", "play music",
                     "play music history", "call center best practices",
                     "Python tutorial", "Selenium tutorial"}

\* query.lower().strip()
QueryKey(query) ==
    IF query \in {"", "   "} THEN ""
    ELSE IF query = " Rust Async" THEN "rust async"
    ELSE IF query = "Selenium tutorial" THEN "selenium tutorial"
    ELSE IF query = "Python tutorial" THEN "python tutorial"
    ELSE query

\* query_lower.split()
WordsOfKey(key) ==
    CASE key = "" -> <<>>
      [] key = "call mom" -> <<"call", "mom">>
      [] key = "what is rust" -> <<"what", "is", "rust">>
      [] key = "rust async" -> <<"rust", "async">>
      [] key = "get milk" -> <<"get", "milk">>
      [] key = "play music" -> <<"play", "music">>
      [] key = "play music history" -> <<"play", "music", "history">>
      [] key = "call center best practices" -> <<"call", "center", "best", "practices">>
      [] key = "selenium tutorial" -> <<"selenium", "tutorial">>
      [] key = "python tutorial" -> <<"python", "tutorial">>

\* `not query or not query.strip()`
IsBlank(query) == QueryKey(query) = ""

\* \w+ (and the text that follows a trailing \s+) in an alternative
AnyWord == "\\w+"

\* The alternatives w \s+ \w+ for the words w of ws.
ThenWord(ws) == {<<w, AnyWord>> : w \in ws}

\* re.search of the alternatives alts in the text of words: an alternative
\* is a sequence of words, matched at some word of the text.
Search(alts, words) ==
    \E alt \in alts : \E i \in 1..Len(words) :
        /\ i + Len(alt) - 1 <= Len(words)
        /\ \A j \in 1..Len(alt) : alt[j] = AnyWord \/ words[i + j - 1] = alt[j]

\* _heuristic_check: strong_invalid_patterns
StrongInvalidPatterns ==
    <<ThenWord({"call", "text", "message", "send"}),
      {<<"turn", "on", AnyWord>>, <<"turn", "off", AnyWord>>}
          \cup ThenWord({"start", "stop", "pause", "play"}),
      {<<"add", "to", AnyWord>>, <<"remove", "from", AnyWord>>, <<"delete", AnyWord>>},
      {<<"remind", "me">>, <<"remember", "to">>, <<"don't", "forget">>},
      ThenWord({"open", "close", "launch", "quit"}),
      {<<w, "my", AnyWord>> : w \in {"walk", "feed", "take"}},
      ThenWord({"buy", "purchase", "order"}),
      ThenWord({"schedule", "book", "cancel"}),
      {<<"my", w>> : w \in {"password", "pin", "address", "phone"}}>>

\* _heuristic_check: strong_valid_patterns
StrongValidPatterns ==
    <<{<<"what", w>> : w \in {"is", "are", "does", "means"}},
      {<<"how", w>> : w \in {"to", "do", "can", "does"}},
      {<<"why", w>> : w \in {"is", "do", "does", "would"}},
      {<<"when", w>> : w \in {"is", "do", "does", "was"}},
      {<<"where", w>> : w \in {"is", "can", "to"}},
      ThenWord({"best", "top"}) \cup {<<"review", "of">>, <<"comparison", "of">>},
      {<<w>> : w \in {"tutorial", "guide", "instructions", "documentation"}},
      {<<"definition", "of">>, <<"meaning", "of">>, <<"explain", AnyWord>>},
      {<<"difference", "between">>, <<"compare", AnyWord>>},
      {<<"latest", "news">>, <<"current", "events">>, <<"recent", AnyWord>>}>>

\* Some pattern of the list is found in the text.
AnyMatches(patterns, words) ==
    \E p \in 1..Len(patterns) : Search(patterns[p], words)

\* A QueryValidationResult, the confidence in hundredths.
Verdict(is_valid, confidence, category, validation_method) ==
    [is_valid |-> is_valid, confidence |-> confidence, category |-> category,
     validation_method |-> validation_method]

\* _heuristic_check(query)
HeuristicCheck(query) ==
    LET words == WordsOfKey(QueryKey(query))
    IN  IF AnyMatches(StrongInvalidPatterns, words)
        THEN Verdict(FALSE, 95, "personal_action", "heuristic")
        ELSE IF AnyMatches(StrongValidPatterns, words)
        THEN Verdict(TRUE, 90, "information_search", "heuristic")
        ELSE Verdict(TRUE, 60, "information_search", "heuristic")

\* _enhanced_heuristic_validation: context_patterns["invalid"]
ContextInvalidPatterns ==
    <<[alts |-> ThenWord({"call", "text", "message", "send", "email"}),
       confidence |-> 90, category |-> "social_interaction"],
      [alts |-> {<<"turn", "on", AnyWord>>, <<"turn", "off", AnyWord>>}
                    \cup ThenWord({"start", "stop", "pause", "play"}),
       confidence |-> 90, category |-> "device_control"],
      [alts |-> {<<"add", "to", AnyWord>>, <<"remove", "from", AnyWord>>}
                    \cup ThenWord({"delete", "create", "make"}),
       confidence |-> 80, category |-> "file_management"],
      [alts |-> {<<"remind">>, <<"remember">>, <<"note">>, <<"write", "down">>},
       confidence |-> 90, category |-> "personal_reminder"],
      [alts |-> ThenWord({"book", "schedule", "cancel", "reserve"}),
       confidence |-> 80, category |-> "scheduling"],
      [alts |-> {<<w, "my", AnyWord>> : w \in {"walk", "feed", "take", "bring"}},
       confidence |-> 95, category |-> "personal_action"],
      [alts |-> ThenWord({"buy", "purchase", "order", "shop"}),
       confidence |-> 80, category |-> "personal_action"]>>

\* _enhanced_heuristic_validation: context_patterns["valid"]
ContextValidPatterns ==
    <<[alts |-> ThenWord({"what", "how", "why", "when", "where", "who", "which"}),
       confidence |-> 80, category |-> "information_search"],
      [alts |-> ThenWord({"best", "top", "good", "better", "worst", "review", "rating"}),
       confidence |-> 70, category |-> "product_research"],
      [alts |-> ThenWord({"tutorial", "guide", "learn", "study", "understand"}),
       confidence |-> 80, category |-> "educational_content"],
      [alts |-> ThenWord({"definition", "meaning", "explain", "describe"}),
       confidence |-> 90, category |-> "definition_lookup"],
      [alts |-> ThenWord({"compare", "comparison", "vs", "versus", "difference"}),
       confidence |-> 80, category |-> "comparison_analysis"],
      [alts |-> ThenWord({"latest", "recent", "current", "news", "update"}),
       confidence |-> 70, category |-> "news_current_events"],
      [alts |-> ThenWord({"problem", "issue", "error", "fix", "solve", "troubleshoot"}),
       confidence |-> 70, category |-> "troubleshooting"]>>

\* The positions of the context patterns found in the text.
ContextMatches(patterns, words) ==
    {p \in 1..Len(patterns) : Search(patterns[p].alts, words)}

\* The first context pattern found in the text.
FirstContextMatch(patterns, words) ==
    patterns[CHOOSE p \in ContextMatches(patterns, words) :
                 \A p2 \in ContextMatches(patterns, words) : p <= p2]

\* _enhanced_heuristic_validation: action_verbs, question_indicators
ActionVerbs == {"call", "text", "send", "buy", "get", "take", "make", "do", "go", "come"}
QuestionIndicators == {"what", "how", "why", "when", "where", "who", "which",
                       "does", "is", "are", "can", "will", "should"}

\* _enhanced_heuristic_validation(query)
EnhancedHeuristicValidation(query) ==
    LET words == WordsOfKey(QueryKey(query))
    IN  IF ContextMatches(ContextInvalidPatterns, words) # {}
        THEN Verdict(FALSE, FirstContextMatch(ContextInvalidPatterns, words).confidence,
                     FirstContextMatch(ContextInvalidPatterns, words).category,
                     "enhanced_heuristic")
        ELSE IF ContextMatches(ContextValidPatterns, words) # {}
        THEN Verdict(TRUE, FirstContextMatch(ContextValidPatterns, words).confidence,
                     FirstContextMatch(ContextValidPatterns, words).category,
                     "enhanced_heuristic")
        ELSE IF Len(words) <= 3 /\ \E i \in 1..Len(words) : words[i] \in ActionVerbs
        THEN Verdict(FALSE, 70, "personal_action", "enhanced_heuristic")
        ELSE IF \E i \in 1..Len(words) : i <= 3 /\ words[i] \in QuestionIndicators
        THEN Verdict(TRUE, 80, "information_search", "enhanced_heuristic")
        ELSE Verdict(TRUE, 60, "information_search", "enhanced_heuristic")

\* What the model answers with a verdict may hold: a well-typed JSON object
\* (confidence: float takes any number, 1.5 as well), or one that
\* QueryValidationResult(**result_data) refuses.
IllTyped == [is_valid |-> "ill_typed"]
LlmVerdicts == {[is_valid |-> TRUE, confidence |-> 90, category |-> "information_search"],
                [is_valid |-> FALSE, confidence |-> 85, category |-> "personal_action"],
                [is_valid |-> TRUE, confidence |-> 150, category |-> "information_search"],
                IllTyped}

\* What chat.completions.create may do: raise, or answer with no content,
\* with a JSON object, with a JSON object inside other text, with text
\* without braces, or with braces around text that is no JSON.
ClassifierAnswers ==
    {[kind |-> k, verdict |-> v] : k \in {"json", "wrapped"}, v \in LlmVerdicts}
    \cup {[kind |-> k, verdict |-> IllTyped] :
              k \in {"raises", "empty", "no_braces", "broken_braces"}}

\* _llm_validate_query(query), with the answer of the model
LlmValidateQuery(query, answer) ==
    IF answer.kind \in {"json", "wrapped"} /\ answer.verdict # IllTyped
    THEN Verdict(answer.verdict.is_valid, answer.verdict.confidence,
                 answer.verdict.category, "llm")
    ELSE EnhancedHeuristicValidation(query)

\* The keys of the classification cache, and a key without an entry.
ValidatorKeys == {QueryKey(q) : q \in ValidatorQueries} \ {""}
NoEntry == [timestamp |-> -1]

\* The cache file: content is "json" (a JSON object, of entries), "corrupt"
\* (no JSON) or "missing"; mode is what the process may do with the path.
\* entries are the entries of the model's keys; order lists all the entries
\* of the file from the oldest timestamp to the newest (time.time() differs
\* from one cache_result call to the next): [key |-> k, n |-> 1] for the
\* entry of the key k of the model, [key |-> "", n |-> n] for n entries of
\* other queries in a row.
EmptyCacheFile ==
    [content |-> "json", mode |-> "read_write",
     entries |-> [k \in ValidatorKeys |-> NoEntry], order |-> <<>>]

NoResult == [outcome |-> "none"]

\* EnhancedQueryValidator.__init__, QueryClassificationCache._ensure_cache_file
NewValidator(client) ==
    [openai_client |-> client, file |-> EmptyCacheFile, last |-> NoResult]

\* get_cached_result lets the error of open() out unless it is a
\* FileNotFoundError.
ReadRaises(file) == file.mode = "no_access" /\ file.content # "missing"

GetCachedResultOfAnyAge(file, query) ==
    IF file.content = "json" THEN file.entries[QueryKey(query)] ELSE NoEntry

\* get_cached_result(query): the entry, if there is a fresh one
GetCachedResult(file, query) ==
    LET entry == file.entries[QueryKey(query)]
    IN  IF file.content = "json" /\ entry # NoEntry
           /\ now - entry.timestamp < CacheFreshness
        THEN entry
        ELSE NoEntry

\* cache_result: open(self.cache_file, 'w') is outside the try.
WriteRaises(file) == file.mode # "read_write"

\* len(cache)
RECURSIVE CountEntries(_)
CountEntries(order) ==
    IF order = <<>> THEN 0 ELSE Head(order).n + CountEntries(Tail(order))

\* The entries but the one of key.
RECURSIVE WithoutKey(_, _)
WithoutKey(order, key) ==
    IF order = <<>> THEN <<>>
    ELSE IF Head(order).key = key THEN WithoutKey(Tail(order), key)
    ELSE <<Head(order)>> \o WithoutKey(Tail(order), key)

\* The entries with n more at the newest end, under key.
Newest(order, key, n) ==
    IF key = "" /\ order # <<>> /\ order[Len(order)].key = ""
    THEN [order EXCEPT ![Len(order)].n = @ + n]
    ELSE order \o <<[key |-> key, n |-> n]>>

\* The entries but the excess oldest ones.
RECURSIVE DropOldest(_, _)
DropOldest(order, excess) ==
    IF excess <= 0 \/ order = <<>> THEN order
    ELSE IF Head(order).n <= excess
    THEN DropOldest(Tail(order), excess - Head(order).n)
    ELSE <<[Head(order) EXCEPT !.n = @ - excess]>> \o Tail(order)

\* cache_result: keep only the last 1000 entries by timestamp
KeepNewest(order) == DropOldest(order, CountEntries(order) - MaxCacheEntries)

\* The file after n entries were written under key ("" for other queries),
\* the entry of a key of the model being entry.
FileAfterWrite(file, key, n, entry) ==
    LET read == IF file.content = "json" THEN file.order ELSE <<>>
        others == IF key = "" THEN read ELSE WithoutKey(read, key)
        kept == KeepNewest(Newest(others, key, n))
    IN  [file EXCEPT
           !.content = "json",
           !.order = kept,
           !.entries = [k \in ValidatorKeys |->
                          IF k = key THEN entry
                          ELSE IF file.content = "json"
                                  /\ \E i \in 1..Len(kept) : kept[i].key = k
                          THEN @[k]
                          ELSE NoEntry]]

\* cache_result(query, result): the file after the call
CacheResult(file, query, result) ==
    FileAfterWrite(file, QueryKey(query), 1, [timestamp |-> now, result |-> result])

\* No answer: the LLM was not asked.
NoAnswer == [kind |-> "none"]

\* The result of a validate_query call that returns; answer is what the LLM
\* answered in the call, timestamp the timestamp of the cache entry that the
\* call has read or written (the time of the call if it did neither).
Returned(query, result, answer, timestamp) ==
    [outcome |-> "returned", query |-> query, result |-> result,
     answer |-> answer, timestamp |-> timestamp]

\* The result of a validate_query call that lets an exception out.
Raised(query, answer) ==
    [outcome |-> "raised", query |-> query, answer |-> answer]

\* validate_query(query); answer is what the LLM answers if it is asked.
ValidateQuery(query, answer) ==
    LET file == validator.file
        cached_result == GetCachedResult(file, query)
        heuristic_result == HeuristicCheck(query)
        asked == IF heuristic_result.confidence <= 90 /\ validator.openai_client
                 THEN answer ELSE NoAnswer
        result == IF heuristic_result.confidence > 90 THEN heuristic_result
                  ELSE IF validator.openai_client
                  THEN LlmValidateQuery(query, answer)
                  ELSE EnhancedHeuristicValidation(query)
    IN  /\ validator' =
              IF IsBlank(query)
              THEN [validator EXCEPT
                      !.last = Returned(query, Verdict(FALSE, 100, "none", "basic"),
                                        NoAnswer, now)]
              ELSE IF ReadRaises(file)
              THEN [validator EXCEPT !.last = Raised(query, NoAnswer)]
              ELSE IF cached_result # NoEntry
              THEN [validator EXCEPT
                      !.last = Returned(query,
                                        [cached_result.result EXCEPT
                                           !.validation_method = "cached"],
                                        NoAnswer, cached_result.timestamp)]
              ELSE IF WriteRaises(file)
              THEN [validator EXCEPT !.last = Raised(query, asked)]
              ELSE [validator EXCEPT
                      !.file = CacheResult(file, query, result),
                      !.last = Returned(query, result, asked, now)]
        /\ UNCHANGED <<scraperVars, searchVars, detectorVars, limiterVars,
                       backoff, validation, batch, retrieval, scoring>>

\* Outside the validator the cache file is removed, overwritten with text
\* that is no JSON or emptied, or the rights of the process on it change.
CacheFileChanges(content, mode) ==
    /\ <<content, mode>> # <<validator.file.content, validator.file.mode>>
    /\ validator' = [validator EXCEPT
                       !.file.content = content,
                       !.file.mode = mode,
                       !.file.entries =
                           IF content = validator.file.content THEN @
                           ELSE [k \in ValidatorKeys |-> NoEntry],
                       !.file.order =
                           IF content = validator.file.content THEN @ ELSE <<>>]
    /\ UNCHANGED <<scraperVars, searchVars, detectorVars, limiterVars,
                   backoff, validation, batch, laterVars>>

\* validate_query calls of n queries that are none of the model's queries
\* compute n verdicts and write them into the cache file.
OtherVerdictsStored(n) ==
    /\ validator.file.content = "json"
    /\ validator.file.mode = "read_write"
    /\ validator' = [validator EXCEPT
                       !.file = FileAfterWrite(validator.file, "", n, NoEntry)]
    /\ UNCHANGED <<scraperVars, searchVars, detectorVars, limiterVars,
                   backoff, validation, batch, laterVars>>

\* The instants at which an entry written at the start of a day is for the
\* last time fresh, and for the first time stale.
FreshnessInstants ==
    UNION {{d * CacheFreshness - 1, d * CacheFreshness} : d \in 1..MaxDays}

\* Time passes up to one of these instants.
TimePassesTo(instant) ==
    /\ instant > now
    /\ now' = instant
    /\ UNCHANGED <<detectorVars, max_retries, enable_circuit_breaker, page_ok,
                   circuit_breakers, success_metrics, failure_metrics, task,
                   consecutive, url_outcomes, searchVars, limiterVars, restVars>>

\* Time passes, TickStep seconds at once.  A search_google call under way is
\* short against that step: the clock moves between two calls.
Tick ==
    /\ now + TickStep <= MaxTicks * TickStep
    /\ search.pc \in {"idle", "done"}
    /\ now' = now + TickStep
    /\ UNCHANGED <<detectorVars, max_retries, enable_circuit_breaker, page_ok,
                   circuit_breakers, success_metrics, failure_metrics, task,
                   consecutive, url_outcomes, searchVars,
                   limiterVars, restVars>>

(***************************************************************************)
(* self.scrape_attempts and self.page: the ScrapeAttempt records a scraper *)
(* keeps by URL and the one browser page its retrievals navigate, over the *)
(* scrape_page_content_with_retry calls made on it (rate limiting off).    *)
(***************************************************************************)
\* A call: tries counts its loop iterations, attempts is metadata["attempts"]
\* of its result (0 while nothing was extracted), failure_type is
\* attempt.failure_type, raised holds the exception of its last attempt if
\* it raised one, and content names the document its content was read from.
NoCall ==
    [pc |-> "idle", url |-> "https://site.test/page", retry_count |-> 0,
     tries |-> 0, result |-> "none", attempts |-> 0, failure_type |-> "none",
     raised |-> <<>>, content |-> "none"]

\* scrape_attempts is the attempts field of the records (0: a record just
\* made, or none yet); document is the URL the page was last navigated to.
NoRetrieval ==
    [scrape_attempts |-> [u \in Urls |-> 0], document |-> "about:blank",
     call |-> [k \in Tasks |-> NoCall]]

\* An attempt that raises nothing.
Extracted == [raised |-> FALSE, error |-> Err(FALSE, {})]

\* What an attempt of these calls comes to: the content is extracted, or one
\* of the exceptions is raised.
RetrievalOutcomes(url) ==
    {Extracted} \cup {[raised |-> TRUE, error |-> e] : e \in BatchAttemptErrors(url)}

\* Every coroutine of the calls is past its first step.
AllCallsStarted == \A k \in Tasks : retrieval.call[k].pc # "ready"

\* scrape_page_content_with_retry is called (urls has one URL), or
\* scrape_multiple_pages hands the coroutines of a batch to asyncio.gather,
\* once the calls before have returned.
RetrievalsCalled(urls) ==
    /\ \A k \in Tasks : retrieval.call[k].pc \in {"idle", "done"}
    /\ retrieval' = [retrieval EXCEPT
                       !.call = [k \in Tasks |->
                                   IF k <= Len(urls)
                                   THEN [NoCall EXCEPT !.pc = "ready", !.url = urls[k]]
                                   ELSE NoCall]]
    /\ UNCHANGED <<detectorVars, searchVars, limiterVars, max_retries,
                   enable_circuit_breaker, page_ok, circuit_breakers,
                   success_metrics, failure_metrics, now, task, consecutive,
                   url_outcomes, backoff, validation, batch, validator, request,
                   scoring>>

\* The call starts: the breaker check, then the record of the URL is looked
\* up in self.scrape_attempts, and made when there is none.
RetrievalStarts(k) ==
    LET d == GetDomain(retrieval.call[k].url)
        b == circuit_breakers[d]
    IN  /\ retrieval.call[k].pc = "ready"
        /\ \A k2 \in Tasks : k2 < k => retrieval.call[k2].pc # "ready"
        /\ ~enable_rate_limiting
        /\ circuit_breakers' = [circuit_breakers EXCEPT ![d] = BreakerAfterCheck(b)]
        /\ retrieval' = [retrieval EXCEPT
                           !.call[k].pc = IF ShouldCircuitBreak(b) THEN "done" ELSE "loop",
                           !.call[k].result = IF ShouldCircuitBreak(b)
                                              THEN "generated_error" ELSE "none"]
        /\ UNCHANGED <<detectorVars, searchVars, limiterVars, max_retries,
                       enable_circuit_breaker, page_ok, success_metrics,
                       failure_metrics, now, task, consecutive, url_outcomes,
                       backoff, validation, batch, validator, request, scoring>>

\* The except block of an attempt of the call k, r being the scraper's
\* records and calls as the attempt left them.
RetrievalFails(k, r, error) ==
    LET c == r.call[k]
        d == GetDomain(c.url)
        goOn == ShouldRetry(error, c.retry_count) /\ c.retry_count + 1 <= max_retries
    IN  /\ failure_metrics[d] < MaxFailureCount
        /\ failure_metrics' = [failure_metrics EXCEPT ![d] = @ + 1]
        /\ circuit_breakers' = [circuit_breakers EXCEPT
                                  ![d] = UpdateCircuitBreaker(@, FALSE)]
        /\ retrieval' = [r EXCEPT
                           !.call[k].failure_type = ClassifyError(error),
                           !.call[k].raised = <<error>>,
                           !.call[k].retry_count = IF goOn THEN @ + 1 ELSE @,
                           !.call[k].pc = IF goOn THEN "loop" ELSE "done",
                           !.call[k].result = IF goOn THEN "none" ELSE ResultAfterLoop]
        /\ UNCHANGED success_metrics

\* The top of one iteration of the loop: attempt.attempts += 1 on the record
\* of the URL; then a fallback URL returns generated content, a missing page
\* raises, and otherwise self.page.goto(url) is issued.
RetrievalNavigates(k) ==
    LET url == retrieval.call[k].url
        n == retrieval.scrape_attempts[url] + 1
        r == [retrieval EXCEPT !.scrape_attempts[url] = n,
                               !.call[k].tries = @ + 1,
                               !.call[k].raised = <<>>]
    IN  /\ retrieval.call[k].pc = "loop"
        /\ AllCallsStarted
        /\ n <= MaxAttemptCount
        /\ IF IsFallbackUrl(url)
           THEN /\ retrieval' = [r EXCEPT !.call[k].pc = "done",
                                          !.call[k].result = "generated"]
                /\ UNCHANGED <<circuit_breakers, failure_metrics>>
           ELSE IF ~page_ok
           THEN /\ RetrievalFails(k, r, PageNotInitializedError)
           ELSE /\ retrieval' = [r EXCEPT !.document = url, !.call[k].pc = "goto"]
                /\ UNCHANGED <<circuit_breakers, failure_metrics>>
        /\ UNCHANGED <<detectorVars, searchVars, limiterVars, max_retries,
                       enable_circuit_breaker, page_ok, success_metrics, now, task,
                       consecutive, url_outcomes, backoff, validation, batch,
                       validator, request, scoring>>

\* The rest of the iteration, after the awaits of the navigation and of
\* _intelligent_wait: the navigation has raised, or self.page.content() is
\* read, of whatever document the page holds by then, and the checks of the
\* content raise or the call returns what was extracted.
RetrievalReads(k, outcome) ==
    LET c == retrieval.call[k]
        d == GetDomain(c.url)
    IN  /\ c.pc = "goto"
        /\ AllCallsStarted
        /\ IF ~outcome.raised
           THEN /\ success_metrics[d] < MaxSuccessCount
                /\ success_metrics' = [success_metrics EXCEPT ![d] = @ + 1]
                /\ circuit_breakers' = [circuit_breakers EXCEPT
                                          ![d] = UpdateCircuitBreaker(@, TRUE)]
                /\ retrieval' = [retrieval EXCEPT
                                   !.call[k].pc = "done",
                                   !.call[k].result = "extracted",
                                   !.call[k].content = retrieval.document,
                                   !.call[k].attempts = retrieval.scrape_attempts[c.url]]
                /\ UNCHANGED failure_metrics
           ELSE RetrievalFails(k, retrieval, outcome.error)
        /\ UNCHANGED <<detectorVars, searchVars, limiterVars, max_retries,
                       enable_circuit_breaker, page_ok, now, task, consecutive,
                       url_outcomes, backoff, validation, batch, validator,
                       request, scoring>>

(***************************************************************************)
(* enhanced_search_query, the handler of POST /search: the requests are    *)
(* followed one at a time through the query validator, the similarity      *)
(* detector, _perform_enhanced_web_search and the store.                   *)
(***************************************************************************)
\* The query strings of the requests: a blank one, a command, and two
\* searches.
RequestQueries == {"   ", "call mom", "Python tutorial", "Selenium tutorial"}

\* request.query.strip()
Strip(query) == IF query \in EmptyQueries THEN "" ELSE query

\* The stages of the handler, in the order of its statements.
Pipeline == <<"validate", "lookup", "fetch", "store">>

\* A QueryResponse (status 200), or the HTTPException of status 500 that the
\* handler's `except Exception` makes of whatever is raised inside it.
QueryResponse(is_valid, found_similar, results) ==
    [status |-> 200, is_valid |-> is_valid, found_similar |-> found_similar,
     results |-> results]

InternalServerError ==
    [status |-> 500, is_valid |-> FALSE, found_similar |-> FALSE, results |-> <<>>]

\* calls lists the stages the request has gone through; similarity_result
\* and results are the handler's variables of these names; fetched tells how
\* its fetch ended.
NoRequest ==
    [pc |-> "idle", query |-> "", calls |-> <<>>,
     similarity_result |-> NotFound("none"), results |-> <<>>,
     fetched |-> "none", response |-> InternalServerError]

\* What _perform_enhanced_web_search comes to: it raises, it finds no search
\* result, or it returns the processed results.
FetchOutcomes == {"raised", "empty", "results"}

\* The request comes in: query_str is the stripped query; an empty one
\* raises HTTPException(400) inside the handler's try block.
SearchRequest(query) ==
    /\ request.pc \in {"idle", "answered"}
    /\ request' = IF Strip(query) = ""
                  THEN [NoRequest EXCEPT !.pc = "answered"]
                  ELSE [NoRequest EXCEPT !.pc = "validate", !.query = Strip(query)]
    /\ last_find' = NoFind
    /\ UNCHANGED <<scraperVars, searchVars, limiterVars, strict_mode,
                   enable_llm_validation, openai_client, cache_file,
                   cached_queries, store_log, writers, backoff, validation,
                   batch, validator, retrieval, scoring>>

\* query_validator.validate_query(query_str), and the return of the invalid
\* query's response.
RequestValidates(answer) ==
    /\ request.pc = "validate"
    /\ ValidateQuery(request.query, answer)
    /\ request' =
          LET r == [request EXCEPT !.calls = Append(@, "validate")]
          IN  IF validator'.last.outcome = "raised"
              THEN [r EXCEPT !.pc = "answered", !.response = InternalServerError]
              ELSE IF ~validator'.last.result.is_valid
              THEN [r EXCEPT !.pc = "answered",
                             !.response = QueryResponse(FALSE, FALSE, <<>>)]
              ELSE [r EXCEPT !.pc = "lookup"]

\* A handler that looks the query up and fetches it whatever it found.
RequestLooksUpThenFetches ==
    /\ request.pc = "lookup"
    /\ FindSimilarQuery(request.query)
    /\ request' = [request EXCEPT
                     !.calls = Append(@, "lookup"),
                     !.similarity_result = last_find'.result,
                     !.pc = IF last_find'.raised THEN "answered" ELSE "fetch"]

\* similarity_detector.find_similar_query(query_str), and the return of the
\* cached results on a hit.
RequestLooksUp ==
    /\ request.pc = "lookup"
    /\ FindSimilarQuery(request.query)
    /\ request' =
          LET r == [request EXCEPT !.calls = Append(@, "lookup"),
                                   !.similarity_result = last_find'.result]
          IN  IF last_find'.raised
              THEN [r EXCEPT !.pc = "answered", !.response = InternalServerError]
              ELSE IF r.similarity_result.found
                      /\ r.similarity_result.best_match # NoRecord
              THEN [r EXCEPT !.pc = "answered",
                             !.response = QueryResponse(TRUE, TRUE,
                                             r.similarity_result.best_match.results)]
              ELSE [r EXCEPT !.pc = "fetch"]

\* _perform_enhanced_web_search, in its try block: what it raises is caught
\* and leaves results = [].
RequestFetches(outcome) ==
    /\ request.pc = "fetch"
    /\ request' = [request EXCEPT
                     !.pc = "store",
                     !.calls = Append(@, "fetch"),
                     !.fetched = outcome,
                     !.results = IF outcome = "results"
                                 THEN ResultsOfStore(Len(store_log) + 1)
                                 ELSE <<>>]
    /\ UNCHANGED <<scraperVars, searchVars, limiterVars, detectorVars, backoff,
                   validation, batch, validator, retrieval, scoring>>

\* similarity_detector.store_query_with_results(query_str, results, ...),
\* and the return of the response.
RequestStores ==
    /\ request.pc = "store"
    /\ StoreQueryWithResults(request.query, request.results)
    /\ request' = [request EXCEPT
                     !.pc = "answered",
                     !.calls = Append(@, "store"),
                     !.response = QueryResponse(TRUE, FALSE, request.results)]

\* The scraper, the detector and the histories after construction.
ProgramInit ==
    /\ max_retries \in 0..MaxRetriesBound
    /\ enable_circuit_breaker \in BOOLEAN
    /\ page_ok \in BOOLEAN
    /\ circuit_breakers = [d \in BreakerKeys |-> NewBreaker]
    /\ success_metrics = [d \in Domains |-> 0]
    /\ failure_metrics = [d \in Domains |-> 0]
    /\ now = 0
    /\ task = [t \in Tasks |-> IdleTask]
    /\ consecutive = [d \in Domains |-> 0]
    /\ url_outcomes = [u \in Urls |-> "none"]
    /\ search = IdleSearch
    /\ searches = 0
    /\ strict_mode \in BOOLEAN
    /\ enable_llm_validation \in BOOLEAN
    /\ openai_client \in BOOLEAN
    /\ cache_file = <<>>
    /\ cached_queries = <<>>
    /\ last_find = NoFind
    /\ store_log = <<>>
    /\ writers = [w \in Writers |-> IdleWriter]
    /\ enable_rate_limiting \in BOOLEAN
    /\ rate_limits = [d \in Domains |-> NewRateLimit]
    /\ millis = 0
    /\ backoff = NoBackoff
    /\ validation = NoValidation
    /\ retrieval = NoRetrieval
    /\ request = NoRequest
    /\ scoring = NoScore

\* With the agent and the query validator as their constructors' defaults
\* make them (no OPENAI_API_KEY in the environment).
Init ==
    /\ ProgramInit
    /\ batch = NoBatch(DefaultMaxConcurrentRequests)
    /\ validator = NewValidator(FALSE)

\* The constructor defaults of the scraper (started) and of the detector
\* (without OPENAI_API_KEY in the environment).
DefaultScraper ==
    /\ max_retries = DefaultMaxRetries
    /\ enable_circuit_breaker
    /\ enable_rate_limiting
    /\ page_ok

DefaultDetector == strict_mode /\ enable_llm_validation /\ ~openai_client

\* The URL lists of a batch of at most n retrievals.
UrlLists(n) == UNION {[1..k -> Urls] : k \in 1..n}

\* The steps of a scraper that runs at most n retrievals at a time, whose
\* attempts on url raise one of errors[url] when they fail.
ScrapeNext(n, errors) ==
    \/ \E urls \in UrlLists(n) : StartBatch(urls)
    \/ \E t \in Tasks : StartScrape(t)
    \/ \E t \in Tasks : BeginAttempt(t)
    \/ \E t \in Tasks : AttemptSucceeds(t)
    \/ \E t \in Tasks : \E e \in errors[task[t].url] : AttemptFails(t, e)
    \/ Tick

\* One retrieval at a time on a scraper (scrape_page_content called in a loop).
ScrapeInit == Init /\ ~enable_rate_limiting /\ DefaultDetector

SpecScrape == ScrapeInit /\ [][ScrapeNext(1, [u \in Urls |-> AttemptErrors(u)])]_vars

\* Calls of scrape_page_content_with_retry made one after the other on a
\* scraper without rate limiting, their attempts followed in scrape_attempts.
RetrievalSteps ==
    \/ \E k \in Tasks : RetrievalStarts(k)
    \/ \E k \in Tasks : RetrievalNavigates(k)
    \/ \E k \in Tasks :
          \E outcome \in RetrievalOutcomes(retrieval.call[k].url) :
              RetrievalReads(k, outcome)

RetrievalsNext ==
    \/ \E url \in Urls : RetrievalsCalled(<<url>>)
    \/ RetrievalSteps
    \/ Tick

RetrievalsInit == ScrapeInit /\ max_retries = DefaultMaxRetries

SpecRetrievals == RetrievalsInit /\ [][RetrievalsNext]_vars

\* The retrievals of the batches of scrape_multiple_pages on one started
\* scraper, two at a time on its one page.
PagesNext ==
    \/ \E urls \in UrlLists(BatchSize) : RetrievalsCalled(urls)
    \/ RetrievalSteps

PagesInit == ScrapeInit /\ page_ok /\ enable_circuit_breaker /\ max_retries = 1

SpecPages == PagesInit /\ [][PagesNext]_vars

\* The retrievals of one batch of scrape_multiple_pages, run by asyncio.gather,
\* on a started scraper (the batch runs inside "async with EnhancedWebScraper")
\* with the breaker enabled.
BatchInit ==
    Init /\ page_ok /\ enable_circuit_breaker /\ ~enable_rate_limiting /\ DefaultDetector

SpecBatch == BatchInit /\ [][ScrapeNext(BatchSize, [u \in Urls |-> BatchAttemptErrors(u)])]_vars

\* The steps of search_google calls made one after the other.
SearchNext ==
    \/ \E q \in Queries, m \in 0..MaxResultsBound : StartSearch(q, m)
    \/ SkipEngine
    \/ \E pages \in PageLists : EngineReturns(pages)
    \/ EngineRaises
    \/ \E pages \in PageLists : ApiFallback(pages)
    \/ Tick

\* A scraper with the default max_retries that is used for searches only.
SearchInit ==
    Init /\ max_retries = DefaultMaxRetries /\ enable_rate_limiting /\ DefaultDetector

SpecSearch == SearchInit /\ [][SearchNext]_vars

\* The calls made on one detector, one after the other.
DetectorNext ==
    \/ \E q \in DetectorQueries :
          StoreQueryWithResults(q, ResultsOfStore(Len(store_log) + 1))
          /\ UNCHANGED request
    \/ \E q \in DetectorQueries : FindSimilarQuery(q) /\ UNCHANGED request
    \/ ClearExpiredQueries
    \/ \E instant \in ExpiryInstants : Elapse(instant)

\* A detector with LLM validation enabled (the default), in strict mode or
\* not, with or without an OpenAI client, next to an idle scraper.
DetectorInit == Init /\ DefaultScraper /\ enable_llm_validation

SpecDetector == DetectorInit /\ [][DetectorNext]_vars

\* The lookup scenarios: a few stores, then lookups (also of an empty and of
\* a blank query), with no time passing.
LookupNext ==
    \/ \E q \in ScenarioQueries :
          /\ Len(store_log) < MaxLookupStores
          /\ StoreQueryWithResults(q, ResultsOfStore(Len(store_log) + 1))
          /\ UNCHANGED request
    \/ \E q \in ScenarioQueries \cup EmptyQueries :
          FindSimilarQuery(q) /\ UNCHANGED request

\* A detector in any configuration, next to an idle scraper.
LookupInit == Init /\ DefaultScraper

SpecLookup == LookupInit /\ [][LookupNext]_vars

\* Lookups whose confidence_score is followed, on a detector with an OpenAI
\* client, after a few stores.
ScoredQueries == {"Tata Steel current share price", "Tata Motors share price"}

ScoringNext ==
    \/ \E q \in ScoredQueries :
          /\ Len(store_log) < MaxLookupStores
          /\ StoreQueryWithResults(q, ResultsOfStore(Len(store_log) + 1))
          /\ UNCHANGED request
    \/ \E q \in ScoredQueries \cup {"Python tutorial"} :
          \E sim \in Similarities(q), llm \in LlmInputs : ScoredLookup(q, sim, llm)

ScoringInit == LookupInit /\ enable_llm_validation /\ openai_client

SpecScoring == ScoringInit /\ [][ScoringNext]_vars

\* The stores of two processes on the shared cache file.
SharedFileNext ==
    \/ \E w \in Writers, q \in DetectorQueries : WriterLoads(w, q)
    \/ \E w \in Writers : WriterSaves(w)

SharedFileInit == Init /\ DefaultScraper /\ DefaultDetector

SpecSharedFile == SharedFileInit /\ [][SharedFileNext]_vars

\* The stores made on one detector while time passes, and the purges.
StoreNext ==
    \/ \E q \in StoreQueries :
          StoreQueryWithResults(q, ResultsOfStore(Len(store_log) + 1))
          /\ UNCHANGED request
    \/ ClearExpiredQueries
    \/ \E instant \in ExpiryInstants : Elapse(instant)

\* A detector with the constructor defaults, next to an idle scraper.
StoreInit == Init /\ DefaultScraper /\ DefaultDetector

SpecStore == StoreInit /\ [][StoreNext]_vars

\* Retrievals of the pages of one site, alone or two in a batch, on a scraper
\* with rate limiting whose attempts can time out.
PacedUrlLists ==
    UNION {[1..k -> {"https://site.test/page", "https://site.test/timeout"}] :
              k \in 1..BatchSize}

PacingNext ==
    \/ \E urls \in PacedUrlLists : StartBatch(urls)
    \/ \E t \in Tasks : StartScrape(t)
    \/ \E t \in Tasks : FinishPacing(t)
    \/ \E t \in Tasks : BeginAttempt(t)
    \/ \E t \in Tasks : AttemptSucceeds(t)
    \/ \E t \in Tasks : AttemptFails(t, Err(TRUE, {"timeout"}))
    \/ SleepEnds

PacingInit ==
    /\ Init
    /\ max_retries = 1
    /\ enable_circuit_breaker
    /\ enable_rate_limiting
    /\ page_ok
    /\ DefaultDetector

SpecPacing == PacingInit /\ [][PacingNext]_vars

\* Retrievals of one URL, one after the other, on a scraper with rate
\* limiting: the URL is a fallback URL, whose retrieval takes the rate-limit
\* step and returns generated content without a navigation.  Between two
\* retrievals the clock may move on by more than a window.
WindowNext ==
    \/ StartBatch(<<"https://example.com/topic">>)
    \/ \E t \in Tasks : StartScrape(t)
    \/ \E t \in Tasks : FinishPacing(t)
    \/ \E t \in Tasks : BeginAttempt(t)
    \/ SleepEnds
    \/ (task[1].pc = "done" /\ Tick)

WindowInit == Init /\ DefaultScraper /\ DefaultDetector

SpecWindow == WindowInit /\ [][WindowNext]_vars

\* The _validate_search_results calls of searches, on the candidate lists of
\* a backend and of the API.
RelevanceNext ==
    \E k \in 0..MaxCandidates : \E pages \in [1..k -> CandidatePages] :
        \E source \in {"bing", "duckduckgo_api"}, query \in CandidateQueries :
            ValidateCall(pages, source, query)

RelevanceInit == Init /\ DefaultScraper /\ DefaultDetector

SpecRelevance == RelevanceInit /\ [][RelevanceNext]_vars

\* scrape_multiple_pages and batch_scrape calls, one after the other, whose
\* retrievals end in any order, with a result or an exception.
BatchesNext ==
    \/ \E urls \in BatchUrlLists : ScrapeMultiplePages(urls)
    \/ GatherBatch
    \/ \E k \in 1..MaxUrls, outcome \in {"returned", "raised"} : RetrievalEnds(k, outcome)
    \/ BatchReturns
    \/ NextBatch
    \/ \E urls \in BatchUrlLists : BatchScrape(urls)
    \/ \E k \in 1..MaxUrls : ScrapeSingle(k)
    \/ BatchScrapeReturns

BatchesInit ==
    /\ ProgramInit /\ DefaultScraper /\ DefaultDetector
    /\ \E m \in 1..MaxConcurrent : batch = NoBatch(m)
    /\ validator = NewValidator(FALSE)

SpecBatches == BatchesInit /\ [][BatchesNext]_vars

\* validate_query calls, one after the other, on a validator with or without
\* an LLM client, and what happens to the cache file in between.
GateQueries == {"", "   ", "call mom", "what is rust", "rust async"}
GateAnswers ==
    {a \in ClassifierAnswers :
        a.verdict = IllTyped \/ (a.kind = "json") = a.verdict.is_valid}

ValidatorNext ==
    \/ \E query \in GateQueries, answer \in GateAnswers :
          ValidateQuery(query, answer) /\ UNCHANGED request
    \/ \E content \in {"json", "corrupt", "missing"},
          mode \in {"read_write", "read_only", "no_access"} :
          CacheFileChanges(content, mode)

ValidatorInit ==
    /\ ProgramInit /\ DefaultScraper /\ DefaultDetector
    /\ batch = NoBatch(DefaultMaxConcurrentRequests)
    /\ \E client \in BOOLEAN : validator = NewValidator(client)

SpecValidator == ValidatorInit /\ [][ValidatorNext]_vars

\* validate_query calls over two days on a cache file that nothing else
\* touches, with verdicts of other queries stored in between.
CachedQueries == {"rust async", " Rust Async", "call mom"}
CachedAnswers ==
    {[kind |-> "json",
      verdict |-> [is_valid |-> FALSE, confidence |-> 85, category |-> "personal_action"]],
     [kind |-> "raises", verdict |-> IllTyped]}

VerdictCacheNext ==
    \/ \E query \in CachedQueries, answer \in CachedAnswers :
          ValidateQuery(query, answer) /\ UNCHANGED request
    \/ OtherVerdictsStored(OthersStored)
    \/ \E instant \in FreshnessInstants : TimePassesTo(instant)

SpecVerdictCache == ValidatorInit /\ [][VerdictCacheNext]_vars

\* _llm_validate_query: the edge cases that system_prompt names, and what it
\* tells the classifier to answer on them.
InformationalQueries == {"play music history", "call center best practices"}
BareCommands == {"play music", "call mom"}

InstructedAnswer(query) ==
    [kind |-> "json",
     verdict |-> IF query \in BareCommands
                 THEN [is_valid |-> FALSE, confidence |-> 85, category |-> "personal_action"]
                 ELSE [is_valid |-> TRUE, confidence |-> 90, category |-> "information_search"]]

\* validate_query calls on these edge cases and on a query without a strong
\* pattern, with an LLM that answers as instructed.
EdgeCasesNext ==
    \E query \in InformationalQueries \cup BareCommands \cup {"get milk"} :
        ValidateQuery(query, InstructedAnswer(query)) /\ UNCHANGED request

SpecEdgeCases == ValidatorInit /\ [][EdgeCasesNext]_vars

\* The /search requests of one server process, one after the other, with
\* or without OPENAI_API_KEY in its environment.
RequestAnswers ==
    {a \in CachedAnswers : TRUE} \cup {InstructedAnswer("Python tutorial")}

RequestsNext ==
    \/ \E query \in RequestQueries : SearchRequest(query)
    \/ \E answer \in RequestAnswers : RequestValidates(answer)
    \/ RequestLooksUp
    \/ \E outcome \in FetchOutcomes : RequestFetches(outcome)
    \/ RequestStores

RequestsInit ==
    /\ ProgramInit /\ DefaultScraper /\ strict_mode /\ enable_llm_validation
    /\ batch = NoBatch(DefaultMaxConcurrentRequests)
    /\ validator = NewValidator(openai_client)

SpecRequests == RequestsInit /\ [][RequestsNext]_vars

\* The _get_retry_delay calls of retry loops, on an idle scraper.
BackoffNext ==
    \/ \E failure_type \in FailureTypes, jitter \in Jitters :
          FirstRetryDelay(failure_type, jitter)
    \/ \E jitter \in Jitters : NextRetryDelay(jitter)

BackoffInit == Init /\ DefaultScraper /\ DefaultDetector

SpecBackoff == BackoffInit /\ [][BackoffNext]_vars

(***************************************************************************)
(* Claims about the circuit breaker and the retry loop.                    *)
(***************************************************************************)
BreakerOf(url) == circuit_breakers[GetDomain(url)]

\* Task t issues page.goto in this step.
IssuesNavigation(t) == task[t].pc # "goto" /\ task'[t].pc = "goto"

\* C1 (as claimed): the failure that makes 3 consecutive failures of a domain
\* leaves its breaker open, and no navigation is issued to a domain whose
\* breaker is open and whose last failure is less than 5 minutes old.
C1_NoNavigationWhileOpen ==
    [][ /\ \A d \in Domains :
             (enable_circuit_breaker /\ consecutive'[d] > consecutive[d]
              /\ consecutive'[d] >= FailureThreshold)
             => circuit_breakers'[d].state = "open"
        /\ \A t \in Tasks :
             IssuesNavigation(t)
             => ~(BreakerOf(task[t].url).state = "open"
                  /\ now - BreakerOf(task[t].url).last_failure < BreakerOpenSeconds)
      ]_vars

TimedOutCall(t) ==
    /\ task[t].pc = "done"
    /\ task[t].result = "generated_error"
    /\ url_outcomes[task[t].url] = "timeouts"

\* C6 (as claimed): a call for a URL whose every attempt times out makes
\* exactly max_retries+1 attempts.
C6_ExactlyMaxRetriesPlusOne ==
    \A t \in Tasks : TimedOutCall(t) => task[t].tries = max_retries + 1

\* C6 (amended): a call makes at most max_retries+1 attempts, a call for a URL
\* whose every attempt times out makes exactly max_retries+1 unless the
\* domain's breaker was open when it started (then it makes none), and every
\* step of an attempt either ends the call or moves the loop to the next of
\* its max_retries+1 rounds.
C6_AttemptsBounded ==
    /\ [](\A t \in Tasks :
            /\ task[t].tries <= max_retries + 1
            /\ task[t].retry_count <= max_retries
            /\ TimedOutCall(t) => task[t].tries \in {0, max_retries + 1}
            /\ (TimedOutCall(t) /\ task[t].tries = 0)
               => BreakerOf(task[t].url).state = "open")
    /\ [][\A t \in Tasks :
            (task[t].pc \in {"loop", "goto"} /\ task'[t] # task[t])
            => \/ task'[t].pc = "done"
               \/ task'[t].pc = "goto" /\ task[t].pc = "loop"
               \/ task'[t].pc = "loop"
                  /\ task'[t].retry_count = task[t].retry_count + 1]_vars

\* C6 witness: a call with max_retries >= 2 whose attempts all timed out has
\* returned after max_retries+1 attempts.
C6_Witness ==
    \E t \in Tasks :
        /\ TimedOutCall(t)
        /\ max_retries >= 2
        /\ task[t].tries = max_retries + 1

\* The retry policy has refused to retry the last failure of task t, or the
\* retries are used up.
RetriesRefusedOrExhausted(t) ==
    \/ task[t].retry_count >= max_retries
    \/ task[t].failure_type \in {"blocked", "captcha"}
    \/ task[t].failure_type = "rate_limited" /\ task[t].retry_count >= RateLimitRetries

C9_OpensOnlyOnConsecutiveFailures ==
    [][\A d \in Domains :
          (circuit_breakers[d].state = "closed"
           /\ circuit_breakers'[d].state = "open")
          => consecutive'[d] >= FailureThreshold]_vars

\* C10 (as claimed): while a breaker is half-open at most one attempt to its
\* domain is under way.
C10_OneTrialWhileHalfOpen ==
    \A d \in Domains :
        circuit_breakers[d].state = "half-open"
        => Cardinality({t \in Tasks : /\ task[t].pc = "goto"
                                      /\ GetDomain(task[t].url) = d}) <= 1

\* An attempt on domain d is recorded as a success / as a failure in this step.
SucceedsOn(d) == success_metrics'[d] = success_metrics[d] + 1

FailsOn(d) == failure_metrics'[d] = failure_metrics[d] + 1

\* C11: a breaker enters half-open with success_count 0; while it is
\* half-open the first success leaves it half-open with success_count 1, the
\* second closes it with failure_count 0, a failure returns it to open, and
\* nothing else changes it: the two successes that close it are recorded
\* while it is half-open, one after the other.
C11_HalfOpenClosesAfterTwo ==
    [][\A d \in Domains :
          LET b  == circuit_breakers[d]
              b2 == circuit_breakers'[d]
          IN  /\ (b.state # "half-open" /\ b2.state = "half-open")
                 => /\ b.state = "open"
                    /\ b2.success_count = 0
                    /\ ~SucceedsOn(d) /\ ~FailsOn(d)
              /\ b.state = "half-open"
                 => /\ b.success_count \in {0, 1}
                    /\ SucceedsOn(d)
                       => IF b.success_count = 1
                          THEN b2.state = "closed" /\ b2.failure_count = 0
                          ELSE b2.state = "half-open" /\ b2.success_count = 1
                    /\ FailsOn(d) => b2.state = "open"
                    /\ (~SucceedsOn(d) /\ ~FailsOn(d)) => b2 = b]_vars

\* C11 witness: a breaker that was opened by three failures is closed again
\* with failure_count 0 and the two successes of its half-open phase.
C11_Witness ==
    \E d \in Domains :
        /\ failure_metrics[d] >= FailureThreshold
        /\ circuit_breakers[d].state = "closed"
        /\ circuit_breakers[d].failure_count = 0
        /\ circuit_breakers[d].success_count = HalfOpenSuccesses

\* Task t has returned the explanatory content after a failed attempt.
GaveUp(t) ==
    /\ task[t].pc = "done"
    /\ task[t].result = "generated_error"
    /\ task[t].failure_type # "none"

\* C21 (as claimed): a call that gives up after a failure of a kind other
\* than blocked and captcha has made max_retries retries, for every max_retries.
C21_RetriedUntilMaxRetries ==
    \A t \in Tasks :
        (GaveUp(t) /\ task[t].failure_type \notin {"blocked", "captcha"})
        => task[t].retry_count = max_retries

\* C21 (amended): a call that gives up after a timeout, network, javascript,
\* parsing or unknown failure has made max_retries retries; one that gives up
\* after a rate_limited failure has made at least min(max_retries, 2) and at
\* most max_retries retries: a rate_limited failure is retried only at the
\* attempt indexes 0 and 1.
C21_RetriedUntilMaxRetriesOrTwice ==
    \A t \in Tasks :
        GaveUp(t)
        => /\ task[t].failure_type \in {"timeout", "network", "javascript",
                                        "parsing", "unknown"}
              => task[t].retry_count = max_retries
           /\ task[t].failure_type = "rate_limited"
              => /\ task[t].retry_count <= max_retries
                 /\ \/ task[t].retry_count >= max_retries
                    \/ task[t].retry_count >= RateLimitRetries

\* C21 witness: with max_retries = 3 a call has given up on a rate_limited
\* failure after two retries.
C21_Witness ==
    \E t \in Tasks :
        /\ GaveUp(t)
        /\ max_retries = 3
        /\ task[t].failure_type = "rate_limited"
        /\ task[t].retry_count = RateLimitRetries

\* C22: the delay before a retry is at most 30 s; below the cap it is the
\* jitter drawn (at most 1 s) plus base x 2^attempt, with base 5 s for
\* rate_limited, 2 s for network and 1.5 s for timeout; and for one failure
\* kind it is never less than the delay of the attempt index before.
C22_BackoffBoundedAndIncreasing ==
    backoff # NoBackoff
    => /\ backoff.delay <= 30000
       /\ backoff.jitter <= 1000
       /\ backoff.delay < 30000
          => /\ backoff.failure_type = "rate_limited"
                => backoff.delay - backoff.jitter = 5000 * (2 ^ backoff.attempt)
             /\ backoff.failure_type = "network"
                => backoff.delay - backoff.jitter = 2000 * (2 ^ backoff.attempt)
             /\ backoff.failure_type = "timeout"
                => backoff.delay - backoff.jitter = 1500 * (2 ^ backoff.attempt)
       /\ backoff.delay = 30000
          => \E base \in {1000, 1500, 2000, 5000} :
                base * (2 ^ backoff.attempt) + backoff.jitter >= 30000
       /\ backoff.attempt > 0 => backoff.delay >= backoff.previous

\* C22 witness: the delay before the fourth retry after rate_limited failures
\* is the cap of 30 s, after a delay below the cap.
C22_Witness ==
    /\ backoff.failure_type = "rate_limited"
    /\ backoff.attempt = 3
    /\ backoff.delay = 30000
    /\ backoff.previous < 30000
    /\ backoff.previous >= 20000

(***************************************************************************)
(* Claims about rate limiting.                                             *)
(***************************************************************************)
\* C26 (as claimed): on a scraper with rate limiting every page request,
\* also that of a retry, is preceded by a rate-limit step of its own for the
\* domain: the task has made the step since its last navigation.
C26_EveryRequestPaced ==
    [][\A t \in Tasks : IssuesNavigation(t) => task[t].paced]_vars

\* The rate-limit step of a request to domain d is completed in this step:
\* last_request is set and the request is counted.
CountsRequest(d) ==
    \E t \in Tasks : /\ GetDomain(task[t].url) = d
                      /\ task[t].pc \in {"ready", "pacing"}
                      /\ task'[t].pc = "loop"
                      /\ enable_rate_limiting

\* C27 (as claimed): a request to a domain starts (its rate-limit step is
\* completed, the page request follows at once) at least the domain's current
\* delay after the request to the domain before it, also when both belong to
\* retrievals of one batch.
C27_RequestsDelayApart ==
    [][\A d \in Domains :
          CountsRequest(d)
          => rate_limits'[d].last_request - rate_limits[d].last_request
                >= rate_limits[d].delay]_vars

\* C28: the delay of every domain is within [0.5 s, 5 s]; a request
\* multiplies it by 1.2 (at most 5 s) when it is the 11th or a later request
\* of the current one-minute window, by 0.9 (at least 0.5 s) when it is the
\* 4th or an earlier one, and leaves it as it is otherwise; nothing else
\* changes it.
C28_DelayClamped ==
    /\ [](\A d \in Domains : /\ rate_limits[d].delay >= 500
                               /\ rate_limits[d].delay <= 5000)
    /\ [][\A d \in Domains :
            LET delay == rate_limits[d].delay
                count == rate_limits'[d].request_count
            IN  IF CountsRequest(d)
                THEN rate_limits'[d].delay
                       = IF count > 10
                         THEN (IF (delay * 12) \div 10 > 5000 THEN 5000
                               ELSE (delay * 12) \div 10)
                         ELSE IF count < 5
                         THEN (IF (delay * 9) \div 10 < 500 THEN 500
                               ELSE (delay * 9) \div 10)
                         ELSE delay
                ELSE rate_limits'[d].delay = delay]_vars

\* C28 witness: after more than 10 requests in one window the delay of a
\* domain has reached 5 s.
C28_Witness ==
    \E d \in Domains :
        /\ rate_limits[d].request_count > 10
        /\ rate_limits[d].delay = 5000

(***************************************************************************)
(* Claims about search_google.                                             *)
(***************************************************************************)
\* C8: a search_google call that is over has returned a list; when no engine
\* and not the API produced a relevant result (each engine failed or was
\* skipped, its breaker open), the list holds only intelligent_fallback items,
\* at most max_results of them and at least one when max_results >= 1.
C8_FallbackNeverEmpty ==
    /\ search.pc \in {"idle", "engines", "api", "done"}
    /\ search.pc = "done"
       => /\ search.via \in {"engine", "api", "fallback"}
          /\ search.via = "fallback"
             => /\ \A i \in 1..Len(search.result) :
                     search.result[i].source = "intelligent_fallback"
                /\ Len(search.result) <= search.max_results
                /\ search.max_results >= 1 => Len(search.result) >= 1
          /\ search.via # "fallback"
             => /\ search.result # <<>>
                /\ \A i \in 1..Len(search.result) :
                     search.result[i].source # "intelligent_fallback"

\* C8 witness: a search that found the breaker of every engine open and got
\* nothing relevant from the API has returned max_results fallback items.
C8_Witness ==
    /\ search.pc = "done"
    /\ search.via = "fallback"
    /\ search.max_results >= 1
    /\ Len(search.result) = search.max_results
    /\ \A d \in EngineDomains : circuit_breakers[d].state = "open"

\* The position of an engine in the priority order of the search under way.
PositionOf(engine) == CHOOSE i \in 1..Len(search.order) : search.order[i] = engine

\* An engine is called in this step.
CallsEngine == Len(search'.called) = Len(search.called) + 1

\* C24: within one search_google call the engines are called one at a time
\* in priority order (each position at most once, none after a later one);
\* an engine is called only as the current engine of the loop and only when
\* its breaker is not open (an open breaker whose last failure is more than
\* 5 minutes old counts as half-open); the call returns an engine's results
\* only if they are that engine's relevance-filtered, non-empty results and
\* every engine called before it produced none; and once it has returned no
\* further engine is called.
C24_EnginesInOrderUntilFirstRelevant ==
    /\ [](/\ \A i, j \in 1..Len(search.called) :
               i < j => PositionOf(search.called[i].engine)
                           < PositionOf(search.called[j].engine)
          /\ (search.pc = "done" /\ search.via = "engine")
             => /\ search.called # <<>>
                /\ search.result = search.called[Len(search.called)].valid
                /\ search.result # <<>>
                /\ \A i \in 1..Len(search.result) :
                      /\ search.result[i].source
                            = search.called[Len(search.called)].engine
                      /\ search.result[i].relevance_score > 0
                /\ \A i \in 1..(Len(search.called) - 1) :
                      search.called[i].valid = <<>>
          /\ (search.pc = "done" /\ search.via # "engine")
             => \A i \in 1..Len(search.called) : search.called[i].valid = <<>>)
    /\ [][/\ CallsEngine
              => /\ search.pc = "engines"
                 /\ search'.called[Len(search'.called)].engine
                       = search.order[search.idx]
                 /\ ~(/\ enable_circuit_breaker
                       /\ circuit_breakers[EngineDomain(search.order[search.idx])].state
                             = "open"
                       /\ now - circuit_breakers[EngineDomain(
                                    search.order[search.idx])].last_failure
                             <= BreakerOpenSeconds)
          /\ (search.pc = "done" /\ searches' = searches)
             => search'.called = search.called]_vars

\* C24 witness: a search has skipped an engine whose breaker is open, called
\* an engine that produced nothing relevant, and returned the results of the
\* next engine, leaving the last engine uncalled.
C24_Witness ==
    /\ search.pc = "done"
    /\ search.via = "engine"
    /\ Len(search.called) = 2
    /\ search.called[1].valid = <<>>
    /\ \E e \in 1..Len(search.order) :
          /\ e < PositionOf(search.called[1].engine)
          /\ circuit_breakers[EngineDomain(search.order[e])].state = "open"
    /\ PositionOf(search.called[2].engine) < Len(search.order)

\* The score of the i-th candidate of the validation that has just returned.
ScoreOf(i) ==
    CalculateRelevanceScore(validation.results[i].title, validation.results[i].url,
                            QueryWords(validation.query))

\* The i-th candidate is among the kept results.
IsKept(i) ==
    \E k \in 1..Len(validation.kept) :
        /\ validation.kept[k].title = validation.results[i].title
        /\ validation.kept[k].url = validation.results[i].url

\* C25 (as claimed): the filter keeps exactly the candidates whose score
\* 0.7 x title overlap + 0.3 x URL overlap is at least 0.1 (100 thousandths):
\* those are kept, those below are dropped, a candidate without a common token
\* scores 0 and is dropped, and the kept results are in descending score order.
C25_KeepsScoresFromOneTenth ==
    /\ \A i \in 1..Len(validation.results) :
          /\ IsKept(i) <=> ScoreOf(i) >= 100
          /\ (/\ QueryWords(validation.query) \cap validation.results[i].title = {}
               /\ QueryWords(validation.query) \cap validation.results[i].url = {})
             => ScoreOf(i) = 0 /\ ~IsKept(i)
    /\ \A j, k \in 1..Len(validation.kept) :
          j < k => validation.kept[j].relevance_score
                     >= validation.kept[k].relevance_score

\* The search attempts on an engine so far have all failed / all succeeded
\* (the engine's breaker counts them).
HasOnlyFailed(engine) ==
    /\ circuit_breakers[EngineDomain(engine)].failure_count > 0
    /\ circuit_breakers[EngineDomain(engine)].success_count = 0

HasOnlySucceeded(engine) ==
    /\ circuit_breakers[EngineDomain(engine)].success_count > 0
    /\ circuit_breakers[EngineDomain(engine)].failure_count = 0

\* C23 (as claimed): the order in which a search_google call tries the
\* backends follows their earlier search outcomes: a backend whose attempts
\* have all failed is not put before one whose attempts have all succeeded.
C23_FailedEngineTriedLater ==
    [][searches' = searches + 1
       => \A i, j \in 1..Len(search'.order) :
             (i < j) => ~(/\ HasOnlyFailed(search'.order[i])
                          /\ HasOnlySucceeded(search'.order[j]))]_vars

(***************************************************************************)
(* Claims about the similarity cache.                                      *)
(***************************************************************************)
\* C2 (as claimed): a lookup never returns found=true with a best_match whose
\* query names another member of a technology set than the lookup query,
\* whatever the similarities, the LLM's answers and the rank of the candidate.
C2_NoMatchAcrossTechnologies ==
    last_find.result.found
    => ~CheckTechnologyMismatch(last_find.query, last_find.result.best_match.query)

\* C3: a lookup that returns found=true returns a best_match that has not
\* expired at the time of the lookup, and when a lookup returns no expired
\* record is left in the cache file.
C3_ExpiredNeverReturned ==
    /\ last_find.result.found => last_find.result.best_match.expires_at >= now
    /\ last_find # NoFind
       => \A i \in 1..Len(cache_file) : cache_file[i].expires_at >= now

\* C3 witness: a lookup whose load removed an expired record has returned
\* found=true.
C3_Witness ==
    /\ last_find.result.found
    /\ last_find.purged >= 1

\* The positions of the records of a query in the cache file.
RecordsOf(file, query) ==
    {i \in 1..Len(file) : file[i].query_hash = QueryHash(query)}

\* C4: the cache file never holds two records of one query_hash, a record
\* carries the results of the latest store of its query, and a store leaves
\* exactly one record of the stored query.
C4_OneRecordPerHash ==
    /\ [](\A i, j \in 1..Len(cache_file) :
            /\ cache_file[i].query_hash = cache_file[j].query_hash => i = j
            /\ \E n \in 1..Len(store_log) :
                  /\ store_log[n] = cache_file[i].query
                  /\ cache_file[i].results = ResultsOfStore(n)
                  /\ \A m \in (n + 1)..Len(store_log) :
                        store_log[m] # cache_file[i].query)
    /\ [][store_log' # store_log
          => Cardinality(RecordsOf(cache_file', store_log'[Len(store_log')])) = 1]_vars

\* C4 witness: a query was stored twice, next to the record of another query,
\* and its record is in the file.
C4_Witness ==
    \E m, n \in 1..Len(store_log) :
        /\ m < n
        /\ store_log[m] = store_log[n]
        /\ RecordsOf(cache_file, store_log[n]) # {}
        /\ Len(cache_file) >= 2

(***************************************************************************)
(* Claims about the lookup scenarios.                                      *)
(***************************************************************************)
\* C12 (as claimed): a lookup of 'Tata Motors share price' never returns the
\* record of 'Tata Steel current share price', whatever the similarity of the
\* two embeddings and the configuration of the detector.
C12_TataMotorsMissesTataSteel ==
    (last_find.query = "Tata Motors share price" /\ last_find.result.found)
    => last_find.result.best_match.query # "Tata Steel current share price"

\* The lookup that has just ended found a leading candidate that neither the
\* domain-keyword filter (applied in strict mode) nor the technology-mismatch
\* filter rejects.
LeadingPassesFilters ==
    /\ last_find.leading # NoCandidate
    /\ ~(strict_mode
         /\ ~AreDomainsCompatible(ExtractDomainKeywords(last_find.query),
                                  ExtractDomainKeywords(last_find.leading.query)))
    /\ ~CheckTechnologyMismatch(last_find.query, last_find.leading.query)

\* The lookup returned its leading candidate.
ReturnsLeading ==
    /\ last_find.result.found
    /\ last_find.result.rank = 1
    /\ last_find.result.best_match.query = last_find.leading.query

\* C13 (as claimed): a leading candidate at or above the base threshold that
\* no mismatch filter rejects is returned with found=true.
C13_LeadingCandidateReturned ==
    LeadingPassesFilters => ReturnsLeading

\* C13 (amended): a leading candidate that passes the filters is rejected
\* when its textual similarity is below 0.3; otherwise, at or above the final
\* threshold (base + 0.05 in strict mode, base when it is off) the lookup
\* returns found=true, with that candidate unless the LLM accepted a
\* lower-ranked one, and below the final threshold it returns found=true
\* only with a candidate the LLM accepted.
C13_LeadingCandidateReturnedAboveFinal ==
    LeadingPassesFilters
    => IF TextualSimilarity(last_find.query, last_find.leading.query)
          < MinTextualSimilarity
       THEN ~last_find.result.found
       ELSE IF last_find.leading.similarity
               >= SimilarityThreshold + (IF strict_mode THEN StrictMargin ELSE 0)
       THEN \/ ReturnsLeading
            \/ /\ last_find.result.found
               /\ last_find.result.rank > 1
               /\ last_find.result.method = "llm_validated"
       ELSE last_find.result.found => last_find.result.method = "llm_validated"

\* C13 witness: in strict mode without an LLM client the lookup of 'best
\* restaurants in NYC' has returned the record of 'top restaurants in New York
\* City', whose similarity is below 1.0.
C13_Witness ==
    /\ strict_mode /\ ~openai_client
    /\ last_find.query = "best restaurants in NYC"
    /\ last_find.leading.query = "top restaurants in New York City"
    /\ last_find.leading.similarity < 100
    /\ LeadingPassesFilters
    /\ ReturnsLeading
    /\ last_find.result.method = "embedding_only"

\* C14 (as claimed): a candidate the LLM was asked about is returned as the
\* match only if the LLM accepted it (is_similar with confidence >= 0.7).
C14_AcceptedOnlyOnLlmYes ==
    last_find.result.found
    => \A i \in 1..Len(last_find.asked) :
          last_find.asked[i].query = last_find.result.best_match.query
          => last_find.asked[i].accepted

\* C15: a match returned with validation_method embedding_only has an
\* embedding similarity at or above base + 0.05 in strict mode and at or
\* above the base threshold when strict mode is off.
C15_EmbeddingOnlyAboveFinal ==
    (last_find.result.found /\ last_find.result.method = "embedding_only")
    => /\ ~last_find.result.llm_validated
       /\ last_find.result.best_similarity
          >= SimilarityThreshold + (IF strict_mode THEN StrictMargin ELSE 0)

\* C15 witness: in strict mode a match of similarity exactly base + 0.05 has
\* been returned as embedding_only.
C15_Witness ==
    /\ strict_mode
    /\ last_find.result.found
    /\ last_find.result.method = "embedding_only"
    /\ last_find.result.best_similarity = SimilarityThreshold + StrictMargin

\* Two queries reference topic-keyword groups that the incompatibility table
\* lists as mutually exclusive.
ReferenceExclusiveGroups(query1, query2) ==
    \E domain1 \in ExtractDomainKeywords(query1),
       domain2 \in ExtractDomainKeywords(query2) :
        domain1 # domain2 /\ {domain1, domain2} \in IncompatiblePairs

\* C16 (as claimed): in no configuration does a lookup return a match whose
\* query references a topic-keyword group that is mutually exclusive with a
\* group of the lookup query.
C16_NoMatchAcrossExclusiveGroups ==
    last_find.result.found
    => ~ReferenceExclusiveGroups(last_find.query, last_find.result.best_match.query)

\* C19 (as claimed): no lookup raises, whatever the query string and the
\* content of the cache.
C19_LookupNeverRaises == ~last_find.raised

(***************************************************************************)
(* Claims about store_query_with_results.                                  *)
(***************************************************************************)
\* The record the store of this step has written (the last of the file).
StoredRecord == cache_file'[Len(cache_file')]

\* The TTLs the claim names, by the keywords it names.
HasTimeKeyword(query) ==
    \/ "weather" \in SubstringsOf(query)
    \/ {"stock", "price"} \subseteq SubstringsOf(query)
    \/ {"breaking", "news"} \subseteq SubstringsOf(query)

HasStableKeyword(query) == AnyIn(SubstringsOf(query), {"tutorial", "definition"})

\* C17 (as claimed): a stored query with a weather / stock price / breaking
\* news keyword gets a TTL of at most 1 h, one with a tutorial / definition
\* keyword a TTL of at least 7 d, every other query 24 h, and expires_at is
\* the creation time plus the TTL.
C17_TtlByKeyword ==
    [][store_log' # store_log
       => /\ HasTimeKeyword(StoredRecord.query)
             => StoredRecord.ttl_seconds <= TimeSensitiveTtl
          /\ HasStableKeyword(StoredRecord.query)
             => StoredRecord.ttl_seconds >= StableContentTtl
          /\ (~HasTimeKeyword(StoredRecord.query)
              /\ ~HasStableKeyword(StoredRecord.query))
             => StoredRecord.ttl_seconds = DefaultTtl
          /\ StoredRecord.timestamp = now
          /\ StoredRecord.expires_at = now + StoredRecord.ttl_seconds]_vars

\* Two query strings differ at most in letter case and in leading, trailing
\* or repeated blanks.
SameUpToCaseAndBlanks(query1, query2) ==
    \/ query1 = query2
    \/ {query1, query2} = {"Python tutorial", "python  tutorial"}

\* C18 (as claimed): the file never holds two records whose queries differ
\* only in letter case or blanks.
C18_OneRecordPerNormalizedQuery ==
    \A i, j \in 1..Len(cache_file) :
        SameUpToCaseAndBlanks(cache_file[i].query, cache_file[j].query) => i = j

\* C20 (as claimed): once the stores under way have written the file, the
\* file holds a record for every query that was stored (no time passes: every
\* record is live).
C20_NoStoreLost ==
    (\A w \in Writers : writers[w].pc # "loaded")
    => \A n \in 1..Len(store_log) : RecordsOf(cache_file, store_log[n]) # {}
(***************************************************************************)
(* Claims about batches of retrievals.                                     *)
(***************************************************************************)
\* The positions of the retrievals in flight.
InFlight == {k \in 1..Len(batch.coroutines) : batch.coroutines[k] = "running"}

\* The number of the batch of scrape_multiple_pages that position k falls in.
BatchIndex(k) == (k - 1) \div BatchSize

\* C29: batch retrieval uses bounded parallelism: scrape_multiple_pages never
\* has more than 2 retrievals in flight and batch_scrape never more than
\* max_concurrent_requests; the retrieval of each input URL is started at
\* most once, and exactly once and ended by the time the call returns; in
\* scrape_multiple_pages a retrieval is started only after every retrieval
\* of the batches before its own has returned.
C29_BoundedParallelism ==
    LET n == Len(batch.urls)
    IN  /\ batch.kind = "scrape_multiple_pages" => Cardinality(InFlight) <= 2
        /\ batch.kind = "batch_scrape" =>
               Cardinality(InFlight) <= batch.max_concurrent_requests
        /\ \A k \in 1..n : batch.retrievals[k] <= 1
        /\ batch.pc = "returned" =>
               \A k \in 1..n : /\ batch.retrievals[k] = 1
                                /\ HasEnded(batch.coroutines[k])
        /\ batch.kind = "scrape_multiple_pages" =>
               \A k, k2 \in 1..n :
                   (batch.retrievals[k] > 0 /\ BatchIndex(k2) < BatchIndex(k))
                       => HasEnded(batch.coroutines[k2])

\* C29 witness: a batch_scrape call of more URLs than
\* max_concurrent_requests, with max_concurrent_requests retrievals in
\* flight, one ended and one still waiting for the semaphore.
C29_Witness ==
    /\ batch.kind = "batch_scrape"
    /\ Len(batch.urls) > batch.max_concurrent_requests
    /\ Cardinality(InFlight) = batch.max_concurrent_requests
    /\ \E k \in 1..Len(batch.urls) : HasEnded(batch.coroutines[k])
    /\ \E k \in 1..Len(batch.urls) : batch.coroutines[k] = "waiting"

(***************************************************************************)
(* Claims about validate_query.                                            *)
(***************************************************************************)
\* The LLM gave no verdict that the validator could take.
NoUsableVerdict(answer) ==
    answer = NoAnswer \/ answer.kind \notin {"json", "wrapped"} \/ answer.verdict = IllTyped

\* No pattern, action verb or question word of the fallback heuristic is in
\* the query.
NoPatternFires(query) ==
    LET words == WordsOfKey(QueryKey(query))
    IN  /\ ContextMatches(ContextInvalidPatterns, words) = {}
        /\ ContextMatches(ContextValidPatterns, words) = {}
        /\ \A i \in 1..Len(words) : words[i] \notin ActionVerbs \cup QuestionIndicators

\* C30: validate_query never raises, also when the cache file cannot be
\* read or written; when the pattern bank is inconclusive and the LLM is
\* absent, fails or gives no usable verdict, the result is that of the
\* fallback heuristic, which is valid at confidence 0.6 when no pattern fires.
C30_NeverRaises ==
    LET last == validator.last
    IN  /\ last.outcome # "raised"
        /\ (/\ last.outcome = "returned"
            /\ ~IsBlank(last.query)
            /\ last.result.validation_method # "cached"
            /\ HeuristicCheck(last.query).confidence <= 90
            /\ NoUsableVerdict(last.answer))
           => /\ last.result.validation_method = "enhanced_heuristic"
              /\ NoPatternFires(last.query) =>
                     (last.result.is_valid /\ last.result.confidence = 60)

\* C31: whenever the query matches a strong-invalid or a strong-valid
\* pattern, i.e. the heuristic confidence is at least 0.9, validate_query
\* returns the verdict of the pattern bank and the LLM is not asked.
C31_StrongPatternsShortCircuit ==
    LET last == validator.last
    IN  (/\ last.outcome = "returned"
         /\ ~IsBlank(last.query)
         /\ last.result.validation_method # "cached"
         /\ HeuristicCheck(last.query).confidence >= 90)
        => /\ last.result = HeuristicCheck(last.query)
           /\ last.answer = NoAnswer

\* The step is a validate_query(query) call (one that ends as the call before
\* it did has left the cache file as it was too, but for a verdict that was
\* evicted and is written again).
CallsValidate(query) ==
    /\ validator'.last # validator.last
    /\ validator'.last.query = query

\* The validate_query call before this one returned a verdict for the same
\* normalized text.
RepeatsLast(query) ==
    /\ validator.last.outcome = "returned"
    /\ ~IsBlank(validator.last.query)
    /\ QueryKey(validator.last.query) = QueryKey(query)

\* The call of the step returns the verdict of the call before it, from the
\* cache, without asking the LLM.
ServedFromCache ==
    /\ validator'.last.outcome = "returned"
    /\ validator'.last.result =
           [validator.last.result EXCEPT !.validation_method = "cached"]
    /\ validator'.last.answer = NoAnswer

\* The call of the step computes a verdict and stores it under key.
Recomputed(key) ==
    /\ validator'.last.outcome = "returned"
    /\ validator'.last.result.validation_method # "cached"
    /\ validator'.file.entries[key] =
           [timestamp |-> now, result |-> validator'.last.result]

\* C32 as claimed: a validate_query call for a non-empty query that repeats
\* the normalized text of the call before it returns the verdict stored by
\* that call if less than 24 h have passed since it was stored, and computes
\* and stores a new verdict otherwise; a call for a text that has no entry
\* computes and stores one.
C32_RepeatedWithinDayIsCached ==
    [][\A query \in ValidatorQueries :
          (CallsValidate(query) /\ ~IsBlank(query)) =>
              /\ validator.file.entries[QueryKey(query)] = NoEntry
                     => Recomputed(QueryKey(query))
              /\ RepeatsLast(query) =>
                     IF now - validator.last.timestamp < CacheFreshness
                     THEN ServedFromCache
                     ELSE Recomputed(QueryKey(query))]_vars

\* C32 amended: the same, for a stored verdict that is still among the 1000
\* newest entries of the cache file; an entry leaves the file only when a
\* write finds more than 1000 entries, and then the oldest leave.
C32_CachedWhileAmongNewest ==
    /\ [][\A query \in ValidatorQueries :
             (CallsValidate(query) /\ ~IsBlank(query)) =>
                 /\ validator.file.entries[QueryKey(query)] = NoEntry
                        => Recomputed(QueryKey(query))
                 /\ RepeatsLast(query) =>
                        IF /\ now - validator.last.timestamp < CacheFreshness
                           /\ validator.file.entries[QueryKey(query)] # NoEntry
                        THEN ServedFromCache
                        ELSE Recomputed(QueryKey(query))]_vars
    /\ [][\A k \in ValidatorKeys :
             (validator.file.entries[k] # NoEntry /\ validator'.file.entries[k] = NoEntry)
                 => /\ CountEntries(validator'.file.order) = MaxCacheEntries
                    /\ \A k2 \in ValidatorKeys :
                          (validator'.file.entries[k2] # NoEntry)
                              => validator.file.entries[k2] = NoEntry
                                 \/ validator.file.entries[k2].timestamp
                                        >= validator.file.entries[k].timestamp]_vars

\* C32 witness: a verdict stored at the start of the day is served from the
\* cache in the last second of its freshness, from a file of 1000 entries.
C32_Witness ==
    /\ validator.last.outcome = "returned"
    /\ validator.last.result.validation_method = "cached"
    /\ now - validator.last.timestamp = CacheFreshness - 1
    /\ CountEntries(validator.file.order) = MaxCacheEntries

\* C33: every result that validate_query returns has a confidence within
\* [0, 1] (0..100 hundredths), verdicts of the LLM and verdicts read back
\* from the cache included.
C33_ConfidenceInUnitInterval ==
    validator.last.outcome = "returned"
        => validator.last.result.confidence \in 0..100

\* C40: with an LLM configured that answers as its instructions say,
\* validate_query returns the informational queries that begin with an
\* action verb as valid and the bare commands as invalid.
C40_ClassifierDecidesEdgeCases ==
    (validator.openai_client /\ validator.last.outcome = "returned")
        => /\ validator.last.query \in InformationalQueries
                 => validator.last.result.is_valid
           /\ validator.last.query \in BareCommands
                 => ~validator.last.result.is_valid

\* C34: the attempts count in the metadata of a scrape_page_content_with_retry
\* result is the number of attempts made in that call, also when an earlier
\* call on the same scraper retrieved the same URL.
C34_AttemptsOfThisCall ==
    \A k \in Tasks :
        retrieval.call[k].result = "extracted"
            => retrieval.call[k].attempts = retrieval.call[k].tries

\* C36: when the text of a fetched page matches a bot-challenge phrase, the
\* attempt is recorded as a captcha failure, the failure is counted on the
\* breaker of the domain and the URL is not tried again in that call,
\* whatever the URL.
C36_BotChallengeIsCaptcha ==
    [][\A k \in Tasks :
          (/\ retrieval.call[k].pc = "goto"
           /\ retrieval'.call[k].raised
                 = <<BotDetectedError(retrieval.call[k].url)>>)
             => /\ retrieval'.call[k].failure_type = "captcha"
                /\ retrieval'.call[k].pc = "done"
                /\ enable_circuit_breaker
                     => circuit_breakers'[GetDomain(retrieval.call[k].url)].failure_count
                          = circuit_breakers[GetDomain(retrieval.call[k].url)].failure_count + 1
      ]_vars

\* The calls of the request are the first stages of the pipeline, in order.
InPipelineOrder(calls) ==
    /\ Len(calls) <= Len(Pipeline)
    /\ \A i \in 1..Len(calls) : calls[i] = Pipeline[i]

\* C35: each /search request goes through validate, lookup, fetch and store
\* in that order: an invalid query is neither looked up nor fetched nor
\* stored, a cache hit is neither fetched nor stored, and a miss is fetched
\* once and then stored once.
C35_StagesInOrder ==
    /\ InPipelineOrder(request.calls)
    /\ request.pc = "answered" =>
          /\ (/\ request.calls # <<>>
              /\ validator.last.outcome = "returned"
              /\ ~validator.last.result.is_valid)
                => request.calls = <<"validate">>
          /\ (/\ Len(request.calls) >= 2
              /\ request.similarity_result.found)
                => request.calls = <<"validate", "lookup">>
          /\ (/\ Len(request.calls) >= 2
              /\ request.response.status = 200
              /\ ~request.similarity_result.found)
                => request.calls = Pipeline

\* C35 witness: a request was answered from the cache after a request that
\* was fetched and stored.
C35_Witness ==
    /\ request.pc = "answered"
    /\ request.calls = <<"validate", "lookup">>
    /\ request.response.found_similar
    /\ store_log # <<>>

\* C39: a query whose fetch failed or found nothing is not served from the
\* cache afterwards: no later request is answered with a cache hit that
\* carries an empty result list.
C39_FailedFetchNotServed ==
    (/\ request.pc = "answered"
     /\ request.response.status = 200
     /\ request.response.found_similar)
        => request.response.results # <<>>

\* The LLM's confidence that the lookup query and the returned match are
\* similar: its answer about this pair if it was asked about it, 0 if not.
LlmConfidenceOfMatch ==
    IF \E i \in 1..Len(last_find.asked) :
          last_find.asked[i].query = last_find.result.best_match.query
    THEN scoring.llm[last_find.result.best_match.query].confidence
    ELSE 0

\* C37: the confidence_score of a match that find_similar_query returns is
\* 0.4 x the embedding similarity of the returned match + 0.3 x the textual
\* similarity of the lookup query and the returned match + 0.3 x the LLM's
\* confidence in this pair, whatever the rank of the match and the path
\* that accepted it.
C37_ConfidenceOfReturnedMatch ==
    (last_find.result.found /\ scoring # NoScore)
        => scoring.confidence_score
             = CalculateConfidenceScore(
                   last_find.result.best_similarity,
                   TextualSimilarity(last_find.query,
                                     last_find.result.best_match.query),
                   LlmConfidenceOfMatch)

\* C38: the content a batch retrieval returns for a URL was read from the
\* page while it held the document of that URL: with two retrievals in
\* flight on the scraper's one page, none returns content loaded for the
\* other URL of the batch.
C38_ContentOfItsOwnUrl ==
    \A k \in Tasks :
        retrieval.call[k].result = "extracted"
            => retrieval.call[k].content = retrieval.call[k].url

====
